---- MODULE Spec2Model ----
(***************************************************************************)
(* The metadata/index consistency engine of the PKM agent: the index table *)
(* (DynamoDBClient), the blob store (S3Client), and the stage handlers     *)
(* (extract_metadata, classify_document, extract_entities,                 *)
(* update_classification_index) run as independent invocations whose       *)
(* individual table and blob calls interleave.                             *)
(***************************************************************************)
EXTENDS Integers, Sequences, FiniteSets, TLC

VARIABLES
    table,      \* the index table: key <<PK, SK>> -> item (attribute map)
    vault,      \* the notes of the vault bucket: path -> document content
    agent,      \* the generated blobs under _agent/: key -> rendered document
    source,     \* history: key of a generated blob -> the table it was rendered from
    triggers,   \* async invocations of the index-rebuild lambda, not yet run
    now,        \* the clock read by datetime.utcnow()
    inv,        \* the invocations: id -> position and local variables
    recorded,   \* history: <<type, name, path>> whose membership put_item was applied
    runs,       \* the number of invocations started so far
    prev,       \* history: the last handler run that returned 200, and the table it left
    base        \* history: the table before the first invocation

vars == <<table, vault, agent, source, triggers, now, inv, recorded, runs, prev, base>>

----------------------------------------------------------------------------
(* Bounds *)

MaxClock == 1
\* invocations that may be in flight at once
MaxInv == 2
\* invocations delivered in a run of the pipeline, one after the other
MaxRuns == 3
\* events delivered to the document stages when events of every kind are tried
MaxEvents == 2
\* invocations of the generators in a run
MaxReports == 3
\* invocations of the generators in a run on a large index
MaxSamples == 2
\* classification runs and index rebuilds in a run, MaxInv of them at once
MaxRebuilds == 4

Invs == 1..MaxInv
Times == 0..MaxClock

----------------------------------------------------------------------------
(* Data *)

Paths == {"a.md", "b.md"}
\* the order in which a query returns items of one partition (by sort key),
\* over all the object keys of the model
PathSeq == <<".obsidian/c.md", "_agent/s.md", "a.md", "b.md", "broken.md",
             "d/_agent/e.md", "gone.md", "list.md", "memo.md", "n.txt", "null.md",
             "scalar.md">>

\* a hundred and one more notes, for the queries that stop at a hundred items
ManyDocs ==
    <<"n001.md", "n002.md", "n003.md", "n004.md", "n005.md", "n006.md", "n007.md", "n008.md",
      "n009.md", "n010.md", "n011.md", "n012.md", "n013.md", "n014.md", "n015.md", "n016.md",
      "n017.md", "n018.md", "n019.md", "n020.md", "n021.md", "n022.md", "n023.md", "n024.md",
      "n025.md", "n026.md", "n027.md", "n028.md", "n029.md", "n030.md", "n031.md", "n032.md",
      "n033.md", "n034.md", "n035.md", "n036.md", "n037.md", "n038.md", "n039.md", "n040.md",
      "n041.md", "n042.md", "n043.md", "n044.md", "n045.md", "n046.md", "n047.md", "n048.md",
      "n049.md", "n050.md", "n051.md", "n052.md", "n053.md", "n054.md", "n055.md", "n056.md",
      "n057.md", "n058.md", "n059.md", "n060.md", "n061.md", "n062.md", "n063.md", "n064.md",
      "n065.md", "n066.md", "n067.md", "n068.md", "n069.md", "n070.md", "n071.md", "n072.md",
      "n073.md", "n074.md", "n075.md", "n076.md", "n077.md", "n078.md", "n079.md", "n080.md",
      "n081.md", "n082.md", "n083.md", "n084.md", "n085.md", "n086.md", "n087.md", "n088.md",
      "n089.md", "n090.md", "n091.md", "n092.md", "n093.md", "n094.md", "n095.md", "n096.md",
      "n097.md", "n098.md", "n099.md", "n100.md", "n101.md">>

\* the object keys of the model in the order of sorted(): by code point
KeyOrder == SubSeq(PathSeq, 1, 10) \o ManyDocs \o SubSeq(PathSeq, 11, 12)

\* key.split('/') and the extension, on the object keys of the model
Segments(key) == CASE key = ".obsidian/c.md" -> <<".obsidian", "c.md">>
                   [] key = "_agent/s.md" -> <<"_agent", "s.md">>
                   [] key = "d/_agent/e.md" -> <<"d", "_agent", "e.md">>
                   [] OTHER -> <<key>>

Extension(key) == CASE key = "" -> ""
                    [] key = "n.txt" -> ".txt"
                    [] OTHER -> ".md"

\* key.endswith('.md'), key.startswith(dir + '/'), ('/' + dir + '/') in key
EndsWithMd(key) == Extension(key) = ".md"
StartsWithDir(key, dir) == Len(Segments(key)) > 1 /\ Segments(key)[1] = dir
ContainsDir(key, dir) ==
    \E j \in 2..(Len(Segments(key)) - 1) : Segments(key)[j] = dir

valid_types == <<"meeting", "idea", "reference", "journal", "project">>
Labels == {valid_types[i] : i \in 1..Len(valid_types)}

expected_keys == <<"people", "organizations", "concepts", "locations">>
EntityTypes == {expected_keys[i] : i \in 1..Len(expected_keys)}

Names == {"Ann", "ann", "ANN", "Bob"}
\* str.lower() on the names of the model
Lower(n) == CASE n = "Ann" -> "ann"
              [] n = "ann" -> "ann"
              [] n = "ANN" -> "ann"
              [] n = "Bob" -> "bob"
              [] OTHER -> n

NoValue == [a \in {} |-> 0]

\* f-strings that build the keys of the table
DocPK(file_path) == <<"doc#", file_path>>
MetaSK == <<"metadata">>
DocKey(file_path) == <<DocPK(file_path), MetaSK>>
TagPK(tag) == <<"tag#", tag>>
EntityPKExact(entity_type, entity_name) == <<"entity#", entity_type, entity_name>>
EntityPK(entity_type, entity_name) == <<"entity#", entity_type, Lower(entity_name)>>
DocSK(file_path) == <<"doc#", file_path>>

\* item['SK'].replace('doc#', '') and doc['PK'].replace('doc#', '')
StripDocPrefix(k) == IF Len(k) = 2 /\ k[1] = "doc#" THEN k[2] ELSE k[1]

KeyOf(item) == <<item.PK, item.SK>>

----------------------------------------------------------------------------
(* The index table: put_item is a full replace of the item with the item's *)
(* key, update_item a merge into the item of the key (created if absent).  *)

PutItemExclusive(T, item) ==
    [k \in {k \in DOMAIN T : k[2] # item.SK} \cup {KeyOf(item)} |->
        IF k = KeyOf(item) THEN item ELSE T[k]]

PutItem(T, item) ==
    [k \in DOMAIN T \cup {KeyOf(item)} |-> IF k = KeyOf(item) THEN item ELSE T[k]]

UpdateItemReplace(T, key, attrs) ==
    [k \in DOMAIN T \cup {key} |->
        IF k = key THEN attrs @@ [PK |-> key[1], SK |-> key[2]] ELSE T[k]]

UpdateItem(T, key, attrs) ==
    LET old == IF key \in DOMAIN T THEN T[key] ELSE [PK |-> key[1], SK |-> key[2]]
    IN  [k \in DOMAIN T \cup {key} |-> IF k = key THEN attrs @@ old ELSE T[k]]

----------------------------------------------------------------------------
(* Document contents. A content is the text of a note, kept as what the    *)
(* extractor finds in it: whether it starts with a ----delimited block     *)
(* (fmPresent), what yaml.safe_load makes of the block (yaml: "mapping",   *)
(* "null", "scalar", "list", or "error" when it raises YAMLError; "none"   *)
(* without a block), the mapping loaded (fm), and the inline hashtags, the *)
(* first H1 and the wikilink targets of the text after the block.          *)

EmptyContent ==
    [empty |-> TRUE, fmPresent |-> FALSE, yaml |-> "none", fm |-> NoValue,
     inline |-> {}, h1 |-> "", links |-> {}]

\* a note without frontmatter
PlainContent ==
    [empty |-> FALSE, fmPresent |-> FALSE, yaml |-> "none", fm |-> NoValue,
     inline |-> {"x"}, h1 |-> "Plain", links |-> {"other"}]

\* a note whose frontmatter carries title, tags and created
FrontContent ==
    [empty |-> FALSE, fmPresent |-> TRUE, yaml |-> "mapping",
     fm |-> [title |-> "Front", tags |-> {"x", "y"}, created |-> 0],
     inline |-> {}, h1 |-> "Heading", links |-> {}]

\* a note whose frontmatter carries a field named like the table's key attribute
KeyContent ==
    [empty |-> FALSE, fmPresent |-> TRUE, yaml |-> "mapping",
     fm |-> [PK |-> DocPK("b.md"), author |-> "me"],
     inline |-> {}, h1 |-> "", links |-> {}]

\* notes whose block is not a mapping: "--- / just text / ---", "--- / - x / ---",
\* and a block that is not YAML ("--- / a: [ / ---")
ScalarContent ==
    [empty |-> FALSE, fmPresent |-> TRUE, yaml |-> "scalar", fm |-> NoValue,
     inline |-> {"x"}, h1 |-> "Scalar", links |-> {}]

ListContent ==
    [empty |-> FALSE, fmPresent |-> TRUE, yaml |-> "list", fm |-> NoValue,
     inline |-> {}, h1 |-> "List", links |-> {}]

BrokenContent ==
    [empty |-> FALSE, fmPresent |-> TRUE, yaml |-> "error", fm |-> NoValue,
     inline |-> {"y"}, h1 |-> "Broken", links |-> {}]

\* a note whose block is empty: safe_load yields None
NullContent ==
    [empty |-> FALSE, fmPresent |-> TRUE, yaml |-> "null", fm |-> NoValue,
     inline |-> {}, h1 |-> "Null", links |-> {}]

\* a note whose frontmatter carries a classification of the author's own
LabelledContent ==
    [empty |-> FALSE, fmPresent |-> TRUE, yaml |-> "mapping",
     fm |-> [classification |-> "memo"],
     inline |-> {}, h1 |-> "Memo", links |-> {}]

Contents == {EmptyContent, PlainContent, FrontContent, KeyContent,
             ScalarContent, ListContent, BrokenContent, NullContent, LabelledContent}

\* the vaults of the model
Vaults == {[p \in Paths |-> IF p = "a.md" THEN PlainContent ELSE FrontContent],
           [p \in Paths |-> IF p = "a.md" THEN KeyContent ELSE EmptyContent]}

\* the text after the block, match.group(2)
Body(content) == [content EXCEPT !.fmPresent = FALSE, !.yaml = "none", !.fm = NoValue]

\* (frontmatter, body): kind is the type of the first component ("None" when it is
\* None), frontmatter its value when it is a dict; `frontmatter or {}` turns a null
\* block into the empty dict and returns a scalar or a list as it is
extract_frontmatter(content) ==
    IF content.fmPresent /\ content.yaml # "error"
        THEN [kind |-> CASE content.yaml = "scalar" -> "str"
                         [] content.yaml = "list" -> "list"
                         [] OTHER -> "dict",
              frontmatter |-> content.fm,
              body |-> Body(content)]
        ELSE [kind |-> "None", frontmatter |-> NoValue, body |-> content]

\* parse_markdown_metadata raises: a str or a list that is true has no items()
ParseRaises(content) == extract_frontmatter(content).kind \in {"str", "list"}

extract_tags(content, frontmatter) ==
    (IF frontmatter # NoValue /\ "tags" \in DOMAIN frontmatter
        THEN frontmatter.tags ELSE {})
    \cup content.inline

extract_title(content, frontmatter) ==
    IF frontmatter # NoValue /\ "title" \in DOMAIN frontmatter
        THEN frontmatter.title
    ELSE IF content.h1 # "" THEN content.h1
    ELSE "Untitled"

extract_wikilinks(content) == content.links

ReservedFields == {"title", "tags", "date", "created", "modified"}

parse_markdown_metadata(content) ==
    LET frontmatter == extract_frontmatter(content).frontmatter
        body == extract_frontmatter(content).body
        metadata == [title |-> extract_title(body, frontmatter),
                     tags |-> extract_tags(body, frontmatter),
                     links_to |-> extract_wikilinks(body),
                     has_frontmatter |-> extract_frontmatter(content).kind # "None"]
        typed == [k \in DOMAIN frontmatter \cap {"date", "created", "modified"} |->
                    frontmatter[k]]
        other == [k \in DOMAIN frontmatter \ ReservedFields |-> frontmatter[k]]
    IN  other @@ typed @@ metadata

----------------------------------------------------------------------------
(* DynamoDBClient *)

\* the item put_document_metadata builds: {'PK': ..., 'SK': ..., **metadata},
\* with modified added when metadata has none
PutDocumentItem(file_path, metadata, t) ==
    LET item == metadata @@ [PK |-> DocPK(file_path), SK |-> MetaSK]
    IN  IF "modified" \in DOMAIN item THEN item ELSE item @@ [modified |-> t]

put_document_metadata_merge(T, file_path, metadata, t) ==
    LET item == PutDocumentItem(file_path, metadata, t)
    IN  PutItem(T, IF KeyOf(item) \in DOMAIN T THEN item @@ T[KeyOf(item)] ELSE item)

put_document_metadata(T, file_path, metadata, t) ==
    PutItem(T, PutDocumentItem(file_path, metadata, t))

update_classification_replace(T, file_path, classification, t) ==
    UpdateItemReplace(T, DocKey(file_path),
                      [classification |-> classification, modified |-> t])

update_classification(T, file_path, classification, t) ==
    UpdateItem(T, DocKey(file_path),
               [classification |-> classification, modified |-> t])

\* the first call of store_entities: the merge into the document record
store_entities_update(T, file_path, entities, t) ==
    UpdateItem(T, DocKey(file_path), [entities |-> entities, modified |-> t])

\* the (type, name) pairs in the order store_entities iterates over them
RECURSIVE PairsFrom(_, _)
PairsFrom(entities, i) ==
    IF i > Len(expected_keys) THEN <<>>
    ELSE LET ty == expected_keys[i]
         IN  [j \in 1..Len(entities[ty]) |-> <<ty, entities[ty][j]>>]
             \o PairsFrom(entities, i + 1)

EntityPairs(entities) == PairsFrom(entities, 1)

EntityItemExact(file_path, entity_type, entity_name, t) ==
    [PK |-> EntityPKExact(entity_type, entity_name), SK |-> DocSK(file_path),
     entity_key |-> EntityPKExact(entity_type, entity_name),
     entity_type |-> entity_type, entity_name |-> entity_name,
     document_path |-> file_path, modified |-> t]

\* one entity index entry of store_entities
EntityItem(file_path, entity_type, entity_name, t) ==
    [PK |-> EntityPK(entity_type, entity_name), SK |-> DocSK(file_path),
     entity_key |-> EntityPK(entity_type, entity_name),
     entity_type |-> entity_type, entity_name |-> entity_name,
     document_path |-> file_path, modified |-> t]

\* store_entities run to its end at time t
RECURSIVE StoreMembers(_, _, _, _)
StoreMembers(T, file_path, pairs, t) ==
    IF pairs = <<>> THEN T
    ELSE StoreMembers(PutItem(T, EntityItem(file_path, pairs[1][1], pairs[1][2], t)),
                      file_path, Tail(pairs), t)

store_entities(T, file_path, entities, t) ==
    StoreMembers(store_entities_update(T, file_path, entities, t),
                 file_path, EntityPairs(entities), t)

\* the items of the entity-index whose entity_key is the given key, in sort-key order
EntityIndexQuery(T, entity_key) ==
    LET items == {k \in DOMAIN T : /\ "entity_key" \in DOMAIN T[k]
                                   /\ T[k].entity_key = entity_key}
        paths == {StripDocPrefix(k[2]) : k \in items}
    IN  SelectSeq(PathSeq, LAMBDA p : p \in paths)

get_entity_mentions(T, entity_type, entity_name) ==
    EntityIndexQuery(T, EntityPK(entity_type, entity_name))

\* DynamoDBClient.get_documents_by_tag: the first `limit` items of the tag-index
\* whose tag_name is the given tag (their keys, in sort-key order)
get_documents_by_tag(T, tag, limit) ==
    LET hits == SelectSeq([n \in 1..Len(PathSeq) |-> <<TagPK(tag), DocSK(PathSeq[n])>>],
                          LAMBDA k : /\ k \in DOMAIN T
                                     /\ "tag_name" \in DOMAIN T[k]
                                     /\ T[k].tag_name = tag)
    IN  SubSeq(hits, 1, IF Len(hits) < limit THEN Len(hits) ELSE limit)

\* the place of a path in the order of the object keys
KeyRank(p) == CHOOSE n \in 1..Len(KeyOrder) : KeyOrder[n] = p

\* get_documents_by_classification(classification): limit: int = 100
DefaultLimit == 100

\* DynamoDBClient.get_documents_by_classification: the query of the
\* classification-index with ScanIndexForward=False and Limit=limit returns
\* the first `limit` items whose classification is the given label, most
\* recently modified first (items of one modification time in the order of
\* their keys); here: the set of their keys. When the label has no more than
\* `limit` items these are all of them, in whatever order.
get_documents_by_classification(T, classification, limit) ==
    LET hits == {k \in DOMAIN T : /\ "classification" \in DOMAIN T[k]
                                  /\ T[k].classification = classification}
        Ahead(j, k) ==
            \/ T[j].modified > T[k].modified
            \/ /\ T[j].modified = T[k].modified
               /\ KeyRank(StripDocPrefix(j[1])) < KeyRank(StripDocPrefix(k[1]))
    IN  IF Cardinality(hits) <= limit THEN hits
        ELSE {k \in hits : Cardinality({j \in hits : Ahead(j, k)}) < limit}

ReversedPaths(S) ==
    LET up == SelectSeq(PathSeq, LAMBDA p : p \in S)
    IN  [n \in 1..Len(up) |-> up[Len(up) + 1 - n]]

\* sorted() of a set of paths
SortedPaths(S) == SelectSeq(KeyOrder, LAMBDA p : p \in S)

get_all_classifications(T) ==
    [c \in Labels |->
        SortedPaths({StripDocPrefix(k[1]) :
                        k \in get_documents_by_classification(T, c, DefaultLimit)})]

----------------------------------------------------------------------------
(* BedrockClient: the text the model returns is an input of the stage *)

ClassifyResponses == {" Idea", "memo"}

\* response.strip().lower() on the responses of the model
StripLower(response) == CASE response = " Idea" -> "idea"
                          [] OTHER -> response

classify_document_raw(response) == StripLower(response)

\* the label classify_document returns for a response of the model
classify_document(response) ==
    IF StripLower(response) \in Labels THEN StripLower(response) ELSE "reference"

\* the mapping extract_entities returns, the four expected keys present
Entities(people, organizations) ==
    [people |-> people, organizations |-> organizations,
     concepts |-> <<>>, locations |-> <<>>]

NoEntities == Entities(<<>>, <<>>)

EntityMaps == {Entities(<<"Ann">>, <<"Bob">>),
               Entities(<<"ann", "ANN">>, <<>>)}

\* the text the model returns for entities, kept as what json.loads makes of it:
\* an object (value: its members), another JSON value ("array"), or no JSON at
\* all ("invalid": JSONDecodeError)
ObjectResponse(value) == [json |-> "object", value |-> value]
ArrayResponse == [json |-> "array", value |-> NoValue]
InvalidResponse == [json |-> "invalid", value |-> NoValue]

\* the responses of the pipeline, and those with a missing category or no object
EntityResponses == {ObjectResponse(e) : e \in EntityMaps}
OddResponses == {ObjectResponse([people |-> <<"Ann">>]), ArrayResponse, InvalidResponse}

\* extract_entities raises: `entities[key] = []` on a value that is no dict
ExtractRaises(response) == response.json \notin {"object", "invalid"}

\* the mapping extract_entities returns when it returns
extract_entities(response) ==
    IF response.json = "invalid" THEN NoEntities
    ELSE [key \in DOMAIN response.value \cup EntityTypes |->
            IF key \in DOMAIN response.value THEN response.value[key] ELSE <<>>]

----------------------------------------------------------------------------
(* markdown_utils: the rendered documents *)

\* sanitize_filename on the names of the model (no spaces, no special characters)
sanitize_filename(name) == Lower(name)

create_entity_page_latest(entity_name, entity_type, mentions, t) ==
    [type |-> entity_type, mentioned_in |-> mentions, last_updated |-> t,
     heading |-> entity_name,
     bullets |-> IF mentions = <<>> THEN <<>> ELSE <<mentions[Len(mentions)]>>]

\* markdown_utils.create_entity_page: the frontmatter, the heading and one bullet
\* for each mention
create_entity_page(entity_name, entity_type, mentions, t) ==
    [type |-> entity_type, mentioned_in |-> mentions, last_updated |-> t,
     heading |-> entity_name, bullets |-> mentions]

RECURSIVE SectionsFrom(_, _)
SectionsFrom(classifications, i) ==
    IF i > Len(valid_types) THEN <<>>
    ELSE LET c == valid_types[i]
         IN  (IF c \in DOMAIN classifications /\ classifications[c] # <<>>
                 THEN << <<c, SortedPaths({classifications[c][j] :
                                             j \in 1..Len(classifications[c])})>> >>
                 ELSE <<>>)
             \o SectionsFrom(classifications, i + 1)

create_classification_index(classifications, t) ==
    [generated |-> t, sections |-> SectionsFrom(classifications, 1)]

AgentKeyUnreserved(output_type, filename) == <<"agent", output_type, filename>>

\* S3Client.put_agent_output: the key is _agent/<output_type>/<filename>
\* (output_type is kept as its path segments)
AgentKey(output_type, filename) == <<"_agent", output_type, filename>>

PutObject(B, key, content) ==
    [k \in DOMAIN B \cup {key} |-> IF k = key THEN content ELSE B[k]]

----------------------------------------------------------------------------
(* Invocations. Each runs one handler (or one call of the client) step by  *)
(* step: a step is one call to a collaborator together with the local      *)
(* computation that follows it.                                            *)

Idle ==
    [stage |-> "idle", path |-> "", pc |-> "idle", status |-> 0,
     meta |-> NoValue, label |-> "", ents |-> NoEntities,
     tags |-> {}, todo |-> <<>>, mentions |-> <<>>, listing |-> NoValue,
     snap |-> NoValue, failed |-> FALSE, bucket |-> "", blob |-> NoValue]

\* the handler returns: its locals are gone, its outcome stays
\* (failed is history: a collaborator call of the invocation raised)
Finish(r, code) ==
    [Idle EXCEPT !.stage = r.stage, !.path = r.path, !.pc = "done", !.status = code,
                 !.failed = r.failed, !.bucket = r.bucket, !.blob = r.blob]

\* a call of the client returns (code 500: it raised); the caller keeps the arguments
Return(r, code) == [r EXCEPT !.pc = "done", !.status = code, !.todo = <<>>]

\* metadata maps a caller may hand to put_document_metadata
ClientMetas ==
    {[title |-> "T"],
     [title |-> "T", modified |-> 0],
     [title |-> "U", created |-> 0, entities |-> NoEntities],
     parse_markdown_metadata(KeyContent)}

NoRun ==
    [stage |-> "", path |-> "", label |-> "", ents |-> NoEntities, table |-> NoValue,
     run |-> 0]

InitOf(T, vaults) ==
    /\ table = T
    /\ vault \in vaults
    /\ agent = NoValue
    /\ source = NoValue
    /\ triggers = {}
    /\ now = 0
    /\ inv = [i \in Invs |-> Idle]
    /\ recorded = {}
    /\ runs = 0
    /\ prev = NoRun
    /\ base = T

InitFrom(T) == InitOf(T, Vaults)

\* the table is empty before the first document arrives
Init == InitFrom(NoValue)

\* a free slot takes the next invocation while the budget lasts
CanStart(i, budget) ==
    /\ inv[i].pc \in {"idle", "done"}
    /\ runs < budget
    /\ \A j \in Invs : j < i => inv[j].pc \notin {"idle", "done"}

Tick ==
    /\ now < MaxClock
    /\ now' = now + 1
    /\ UNCHANGED <<table, vault, agent, source, triggers, inv, recorded, runs, prev, base>>

\* S3Client.get_object: the content, "" when the key is absent (NoSuchKey)
get_object(V, key) == IF key \in DOMAIN V THEN V[key] ELSE EmptyContent

\* the events of the stages: detail.bucket.name and detail.object.key, "" when missing
Buckets == {"", "vault"}
Event(bucket, key) == [bucket |-> bucket, key |-> key]

SkippedNever(stage, key) == FALSE

\* "Skip _agent and .obsidian directories", as each handler writes it
Skipped(stage, key) ==
    IF stage = "classify"
        THEN \/ StartsWithDir(key, "_agent") \/ ContainsDir(key, "_agent")
             \/ StartsWithDir(key, ".obsidian") \/ ContainsDir(key, ".obsidian")
        ELSE StartsWithDir(key, "_agent") \/ StartsWithDir(key, ".obsidian")

EntryUnchecked(stage, event) ==
    LET r == [Idle EXCEPT !.stage = stage, !.path = event.key, !.bucket = event.bucket]
    IN  IF ~EndsWithMd(event.key) THEN Finish(r, 200)
        ELSE IF Skipped(stage, event.key) THEN Finish(r, 200)
        ELSE [r EXCEPT !.pc = "fetch"]

\* the head of a document handler: validation of the event, then the filter
Entry(stage, event) ==
    LET r == [Idle EXCEPT !.stage = stage, !.path = event.key, !.bucket = event.bucket]
    IN  IF event.bucket = "" \/ event.key = "" THEN Finish(r, 400)
        ELSE IF ~EndsWithMd(event.key) THEN Finish(r, 200)
        ELSE IF Skipped(stage, event.key) THEN Finish(r, 200)
        ELSE [r EXCEPT !.pc = "fetch"]

\* an event is delivered to a document stage
Deliver(i, stage, event, budget) ==
    /\ CanStart(i, budget)
    /\ runs' = runs + 1
    /\ inv' = [inv EXCEPT ![i] = Entry(stage, event)]
    /\ UNCHANGED <<table, vault, agent, source, triggers, now, recorded, prev, base>>

\* an event for object key p of the vault bucket is delivered to a document stage
Start(i, stage, p, budget) == Deliver(i, stage, Event("vault", p), budget)

FailRollback(i) ==
    /\ inv[i].pc \in {"fetch", "model", "put", "trigger", "update", "members",
                      "query", "upload", "read", "write", "call", "summaries"}
    /\ inv' = [inv EXCEPT ![i] =
            [(IF @.stage \in {"put", "uc", "se"} THEN Return(@, 500) ELSE Finish(@, 500))
                EXCEPT !.failed = TRUE]]
    /\ table' = [k \in {j \in DOMAIN table : /\ j[1] # DocPK(inv[i].path)
                                             /\ j[2] # DocSK(inv[i].path)} |-> table[k]]
    /\ UNCHANGED <<vault, agent, source, triggers, now, recorded, runs, prev, base>>

\* a collaborator call raises: the handler's except clause returns 500
Fail(i) ==
    /\ inv[i].pc \in {"fetch", "model", "put", "trigger", "update", "members",
                      "query", "upload", "read", "write", "call", "summaries"}
    /\ inv' = [inv EXCEPT ![i] =
            [(IF @.stage \in {"put", "uc", "se"} THEN Return(@, 500) ELSE Finish(@, 500))
                EXCEPT !.failed = TRUE]]
    /\ UNCHANGED <<table, vault, agent, source, triggers, now, recorded, runs, prev, base>>

\* history: a handler that returns 200 becomes the last run, with the table it left
Remember(i) ==
    prev' = IF inv'[i].pc = "done" /\ inv'[i].status = 200 /\ inv[i].stage # "rebuild"
               THEN [stage |-> inv[i].stage, path |-> inv[i].path, label |-> inv[i].label,
                     ents |-> inv[i].ents, table |-> table', run |-> runs]
               ELSE prev

(* extract_metadata/handler.py *)

MetadataOf(content, t) ==
    LET parsed == [modified |-> t] @@ parse_markdown_metadata(content)
    IN  IF "created" \in DOMAIN parsed THEN parsed ELSE parsed @@ [created |-> t]

MetaFetch(i) ==
    /\ inv[i].stage = "metadata" /\ inv[i].pc = "fetch"
    /\ LET content == get_object(vault, inv[i].path)
       IN  inv' = [inv EXCEPT ![i] =
                IF content.empty THEN Finish(@, 200)
                ELSE IF ParseRaises(content) THEN Finish(@, 500)
                ELSE [@ EXCEPT !.pc = "put", !.meta = MetadataOf(content, now)]]
    /\ UNCHANGED <<table, vault, agent, source, triggers, now, recorded, runs, base>>
    /\ Remember(i)

MetaPut(i) ==
    /\ inv[i].stage = "metadata" /\ inv[i].pc = "put"
    /\ table' = put_document_metadata(table, inv[i].path, inv[i].meta, now)
    /\ inv' = [inv EXCEPT ![i] =
            IF inv[i].meta.tags = {} THEN Finish(@, 200)
            ELSE [@ EXCEPT !.pc = "tags", !.tags = inv[i].meta.tags]]
    /\ UNCHANGED <<vault, agent, source, triggers, now, recorded, runs, base>>
    /\ Remember(i)

TagItem(tag, object_key, modified) ==
    [PK |-> TagPK(tag), SK |-> DocSK(object_key), tag_name |-> tag,
     document_path |-> object_key, modified |-> modified]

AfterTag(r, tag) ==
    IF r.tags = {tag} THEN [Finish(r, 200) EXCEPT !.tags = {}]
    ELSE [r EXCEPT !.tags = @ \ {tag}]

MetaTag(i, tag) ==
    /\ inv[i].stage = "metadata" /\ inv[i].pc = "tags" /\ tag \in inv[i].tags
    /\ table' = PutItem(table, TagItem(tag, inv[i].path, inv[i].meta.modified))
    /\ inv' = [inv EXCEPT ![i] = AfterTag(@, tag)]
    /\ UNCHANGED <<vault, agent, source, triggers, now, recorded, runs, base>>
    /\ Remember(i)

\* the put_item of a tag raises: logged, and the loop goes on
MetaTagFail(i, tag) ==
    /\ inv[i].stage = "metadata" /\ inv[i].pc = "tags" /\ tag \in inv[i].tags
    /\ inv' = [inv EXCEPT ![i] = AfterTag([@ EXCEPT !.failed = TRUE], tag)]
    /\ UNCHANGED <<table, vault, agent, source, triggers, now, recorded, runs, base>>
    /\ Remember(i)

(* classify_document/handler.py *)

ClassifyFetch(i) ==
    /\ inv[i].stage = "classify" /\ inv[i].pc = "fetch"
    /\ LET content == get_object(vault, inv[i].path)
       IN  inv' = [inv EXCEPT ![i] =
                IF content.empty THEN Finish(@, 200)
                ELSE IF ParseRaises(content) THEN Finish(@, 500)
                ELSE [@ EXCEPT !.pc = "model", !.meta = parse_markdown_metadata(content)]]
    /\ UNCHANGED <<table, vault, agent, source, triggers, now, recorded, runs, base>>
    /\ Remember(i)

ClassifyModel(i, response) ==
    /\ inv[i].stage = "classify" /\ inv[i].pc = "model"
    /\ LET classification == classify_document(response)
       IN  inv' = [inv EXCEPT ![i] =
                [@ EXCEPT !.pc = "put", !.label = classification,
                          !.meta = [classification |-> classification, modified |-> now]
                                   @@ inv[i].meta]]
    /\ UNCHANGED <<table, vault, agent, source, triggers, now, recorded, runs, prev, base>>

\* "Store classification in DynamoDB"
ClassifyStore(T, object_key, metadata, t) ==
    put_document_metadata(T, object_key, metadata, t)

ClassifyPut(i) ==
    /\ inv[i].stage = "classify" /\ inv[i].pc = "put"
    /\ table' = ClassifyStore(table, inv[i].path, inv[i].meta, now)
    /\ inv' = [inv EXCEPT ![i].pc = "trigger"]
    /\ UNCHANGED <<vault, agent, source, triggers, now, recorded, runs, prev, base>>

ClassifyTrigger(i) ==
    /\ inv[i].stage = "classify" /\ inv[i].pc = "trigger"
    /\ triggers' = triggers \cup
            {[classification |-> inv[i].label, document_path |-> inv[i].path]}
    /\ inv' = [inv EXCEPT ![i] = Finish(@, 200)]
    /\ UNCHANGED <<table, vault, agent, source, now, recorded, runs, base>>
    /\ Remember(i)

(* DynamoDBClient.store_entities, called by the entity stage or directly *)

\* what follows store_entities: the entity handler goes on to the pages
AfterStore(r) ==
    IF r.stage = "entities" /\ EntityPairs(r.ents) # <<>>
        THEN [r EXCEPT !.pc = "query", !.todo = EntityPairs(r.ents)]
        ELSE IF r.stage = "se" THEN Return(r, 200) ELSE Finish(r, 200)

StoreUpdate(i) ==
    /\ inv[i].stage \in {"entities", "se"} /\ inv[i].pc = "update"
    /\ table' = store_entities_update(table, inv[i].path, inv[i].ents, now)
    /\ inv' = [inv EXCEPT ![i] =
            IF EntityPairs(inv[i].ents) = <<>> THEN AfterStore(@)
            ELSE [@ EXCEPT !.pc = "members", !.todo = EntityPairs(inv[i].ents)]]
    /\ UNCHANGED <<vault, agent, source, triggers, now, recorded, runs, base>>
    /\ Remember(i)

StoreMember(i) ==
    /\ inv[i].stage \in {"entities", "se"} /\ inv[i].pc = "members"
    /\ LET entity_type == Head(inv[i].todo)[1]
           entity_name == Head(inv[i].todo)[2]
       IN  /\ table' = PutItem(table, EntityItem(inv[i].path, entity_type, entity_name, now))
           /\ recorded' = recorded \cup {<<entity_type, entity_name, inv[i].path>>}
    /\ inv' = [inv EXCEPT ![i] =
            IF Len(inv[i].todo) = 1 THEN AfterStore(@)
            ELSE [@ EXCEPT !.todo = Tail(@)]]
    /\ UNCHANGED <<vault, agent, source, triggers, now, runs, base>>
    /\ Remember(i)

(* extract_entities/handler.py *)

EntFetch(i) ==
    /\ inv[i].stage = "entities" /\ inv[i].pc = "fetch"
    /\ inv' = [inv EXCEPT ![i] =
            IF get_object(vault, inv[i].path).empty THEN Finish(@, 200)
            ELSE [@ EXCEPT !.pc = "model"]]
    /\ UNCHANGED <<table, vault, agent, source, triggers, now, recorded, runs, base>>
    /\ Remember(i)

EntModel(i, response) ==
    /\ inv[i].stage = "entities" /\ inv[i].pc = "model"
    /\ inv' = [inv EXCEPT ![i] =
            IF ExtractRaises(response) THEN Finish(@, 500)
            ELSE [@ EXCEPT !.pc = "update", !.ents = extract_entities(response)]]
    /\ UNCHANGED <<table, vault, agent, source, triggers, now, recorded, runs, prev, base>>

EntQuery(i) ==
    /\ inv[i].stage = "entities" /\ inv[i].pc = "query"
    /\ inv' = [inv EXCEPT ![i] =
            [@ EXCEPT !.pc = "upload", !.snap = table,
                      !.mentions = get_entity_mentions(table, Head(inv[i].todo)[1],
                                                       Head(inv[i].todo)[2])]]
    /\ UNCHANGED <<table, vault, agent, source, triggers, now, recorded, runs, prev, base>>

EntityPageKey(entity_type, entity_name) ==
    AgentKey(<<"entities", entity_type>>, sanitize_filename(entity_name))

EntUpload(i) ==
    /\ inv[i].stage = "entities" /\ inv[i].pc = "upload"
    /\ LET entity_type == Head(inv[i].todo)[1]
           entity_name == Head(inv[i].todo)[2]
           key == EntityPageKey(entity_type, entity_name)
       IN  /\ agent' = PutObject(agent, key,
                    create_entity_page(entity_name, entity_type, inv[i].mentions, now))
           /\ source' = PutObject(source, key, inv[i].snap)
    /\ inv' = [inv EXCEPT ![i] =
            IF Len(inv[i].todo) = 1
                THEN [Finish(@, 200) EXCEPT !.todo = <<>>, !.mentions = <<>>, !.snap = NoValue]
                ELSE [@ EXCEPT !.pc = "query", !.todo = Tail(@), !.mentions = <<>>,
                               !.snap = NoValue]]
    /\ UNCHANGED <<table, vault, triggers, now, recorded, runs, base>>
    /\ Remember(i)

(* update_classification_index/handler.py *)

IndexKey == AgentKey(<<"classifications">>, "index.md")

\* the async invocation requested by the classification stage is delivered
\* (at least once: it may be delivered again)
StartRebuild(i, payload, again, budget) ==
    /\ CanStart(i, budget)
    /\ runs' = runs + 1
    /\ payload \in triggers
    /\ triggers' = IF again THEN triggers ELSE triggers \ {payload}
    /\ inv' = [inv EXCEPT ![i] =
            [Idle EXCEPT !.stage = "rebuild", !.path = payload.document_path, !.pc = "read"]]
    /\ UNCHANGED <<table, vault, agent, source, now, recorded, prev, base>>

RebuildRead(i) ==
    /\ inv[i].stage = "rebuild" /\ inv[i].pc = "read"
    /\ inv' = [inv EXCEPT ![i] =
            [@ EXCEPT !.pc = "write", !.snap = table,
                      !.listing = get_all_classifications(table)]]
    /\ UNCHANGED <<table, vault, agent, source, triggers, now, recorded, runs, prev, base>>

RebuildWrite(i) ==
    /\ inv[i].stage = "rebuild" /\ inv[i].pc = "write"
    /\ agent' = PutObject(agent, IndexKey, create_classification_index(inv[i].listing, now))
    /\ source' = PutObject(source, IndexKey, inv[i].snap)
    /\ inv' = [inv EXCEPT ![i] = [Finish(@, 200) EXCEPT !.listing = NoValue, !.snap = NoValue]]
    /\ UNCHANGED <<table, vault, triggers, now, recorded, runs, prev, base>>

(* direct calls of the DynamoDBClient *)

StartPut(i, p, metadata, budget) ==
    /\ CanStart(i, budget)
    /\ runs' = runs + 1
    /\ inv' = [inv EXCEPT ![i] =
            [Idle EXCEPT !.stage = "put", !.path = p, !.pc = "call", !.meta = metadata]]
    /\ UNCHANGED <<table, vault, agent, source, triggers, now, recorded, prev, base>>

ClientPut(i) ==
    /\ inv[i].stage = "put" /\ inv[i].pc = "call"
    /\ table' = put_document_metadata(table, inv[i].path, inv[i].meta, now)
    /\ inv' = [inv EXCEPT ![i] = Return(@, 200)]
    /\ UNCHANGED <<vault, agent, source, triggers, now, recorded, runs, prev, base>>

StartUpdate(i, p, classification, budget) ==
    /\ CanStart(i, budget)
    /\ runs' = runs + 1
    /\ inv' = [inv EXCEPT ![i] =
            [Idle EXCEPT !.stage = "uc", !.path = p, !.pc = "call", !.label = classification]]
    /\ UNCHANGED <<table, vault, agent, source, triggers, now, recorded, prev, base>>

ClientUpdate(i) ==
    /\ inv[i].stage = "uc" /\ inv[i].pc = "call"
    /\ table' = update_classification(table, inv[i].path, inv[i].label, now)
    /\ inv' = [inv EXCEPT ![i] = Return(@, 200)]
    /\ UNCHANGED <<vault, agent, source, triggers, now, recorded, runs, prev, base>>

StartStore(i, p, entities, budget) ==
    /\ CanStart(i, budget)
    /\ runs' = runs + 1
    /\ inv' = [inv EXCEPT ![i] =
            [Idle EXCEPT !.stage = "se", !.path = p, !.pc = "update", !.ents = entities]]
    /\ UNCHANGED <<table, vault, agent, source, triggers, now, recorded, prev, base>>

----------------------------------------------------------------------------
(* The pipeline: the four handlers, invoked concurrently *)

Stages == {"metadata", "classify", "entities"}

Steps ==
    \/ Tick
    \/ \E i \in Invs : Fail(i)
    \/ \E i \in Invs : MetaFetch(i)
    \/ \E i \in Invs : MetaPut(i)
    \/ \E i \in Invs, tag \in {"x", "y"} : MetaTag(i, tag)
    \/ \E i \in Invs, tag \in {"x", "y"} : MetaTagFail(i, tag)
    \/ \E i \in Invs : ClassifyFetch(i)
    \/ \E i \in Invs, response \in ClassifyResponses : ClassifyModel(i, response)
    \/ \E i \in Invs : ClassifyPut(i)
    \/ \E i \in Invs : ClassifyTrigger(i)
    \/ \E i \in Invs : EntFetch(i)
    \/ \E i \in Invs, response \in EntityResponses : EntModel(i, response)
    \/ \E i \in Invs : StoreUpdate(i)
    \/ \E i \in Invs : StoreMember(i)
    \/ \E i \in Invs : EntQuery(i)
    \/ \E i \in Invs : EntUpload(i)
    \/ \E i \in Invs : RebuildRead(i)
    \/ \E i \in Invs : RebuildWrite(i)

\* the pipeline, one invocation at a time
Next ==
    \/ Steps
    \/ \E stage \in Stages, p \in Paths : Start(1, stage, p, MaxRuns)
    \/ \E payload \in triggers, again \in BOOLEAN : StartRebuild(1, payload, again, MaxRuns)

Spec == Init /\ [][Next]_vars

\* the pipeline, MaxInv invocations in flight at once
NextRace ==
    \/ Steps
    \/ \E i \in Invs, stage \in Stages, p \in Paths : Start(i, stage, p, MaxInv)
    \/ \E i \in Invs, payload \in triggers, again \in BOOLEAN :
            StartRebuild(i, payload, again, MaxInv)

SpecRace == Init /\ [][NextRace]_vars

\* the client's write operations called directly, one call at a time
NextClient ==
    \/ Tick
    \/ \E p \in Paths, metadata \in ClientMetas : StartPut(1, p, metadata, MaxRuns)
    \/ \E p \in Paths, classification \in Labels : StartUpdate(1, p, classification, MaxRuns)
    \/ \E p \in Paths, entities \in EntityMaps : StartStore(1, p, entities, MaxRuns)
    \/ Fail(1)
    \/ ClientPut(1)
    \/ ClientUpdate(1)
    \/ StoreUpdate(1)
    \/ StoreMember(1)

SpecClient == Init /\ [][NextClient]_vars

\* update_classification and store_entities called concurrently on a table
\* that earlier stages have written
PreTables ==
    LET T1 == put_document_metadata(NoValue, "a.md", MetadataOf(PlainContent, 0), 0)
        T2 == update_classification(
                  store_entities(T1, "a.md", Entities(<<"Bob">>, <<>>), 0),
                  "a.md", "journal", 0)
    IN  {NoValue, T1, T2}

InitCommute == \E T \in PreTables : InitFrom(T)

NextCommute ==
    \/ Tick
    \/ \E i \in Invs, p \in Paths, classification \in {"meeting", "idea"} :
            StartUpdate(i, p, classification, MaxInv)
    \/ \E i \in Invs, p \in Paths, entities \in EntityMaps : StartStore(i, p, entities, MaxInv)
    \/ \E i \in Invs : Fail(i)
    \/ \E i \in Invs : ClientUpdate(i)
    \/ \E i \in Invs : StoreUpdate(i)
    \/ \E i \in Invs : StoreMember(i)

SpecCommute == InitCommute /\ [][NextCommute]_vars

\* the document stages on events of every kind: keys that are filtered, objects
\* that are absent or empty, notes whose frontmatter is not a mapping, events
\* without bucket or key, and model responses that are not the expected object
EventVault ==
    [key \in {"a.md", "b.md", "n.txt", "_agent/s.md", ".obsidian/c.md", "d/_agent/e.md",
              "scalar.md", "list.md", "broken.md", "null.md", "memo.md"} |->
        CASE key = "b.md" -> EmptyContent
          [] key = "scalar.md" -> ScalarContent
          [] key = "list.md" -> ListContent
          [] key = "broken.md" -> BrokenContent
          [] key = "null.md" -> NullContent
          [] key = "memo.md" -> LabelledContent
          [] OTHER -> PlainContent]

EventKeys == DOMAIN EventVault \cup {"gone.md", ""}

Events == {Event(bucket, key) : bucket \in Buckets, key \in EventKeys}

InitEvents == InitOf(NoValue, {EventVault})

NextEvents ==
    \/ Tick
    \/ \E stage \in Stages, event \in Events : Deliver(1, stage, event, MaxEvents)
    \/ Fail(1)
    \/ MetaFetch(1)
    \/ MetaPut(1)
    \/ \E tag \in {"x", "y"} : MetaTag(1, tag)
    \/ \E tag \in {"x", "y"} : MetaTagFail(1, tag)
    \/ ClassifyFetch(1)
    \/ \E response \in ClassifyResponses : ClassifyModel(1, response)
    \/ ClassifyPut(1)
    \/ ClassifyTrigger(1)
    \/ EntFetch(1)
    \/ \E response \in EntityResponses \cup OddResponses : EntModel(1, response)
    \/ StoreUpdate(1)
    \/ StoreMember(1)
    \/ EntQuery(1)
    \/ EntUpload(1)

SpecEvents == InitEvents /\ [][NextEvents]_vars

----------------------------------------------------------------------------
(* The generators: the daily rollup and the weekly report.  In this part a *)
(* datetime is the number of its day, counted from Monday 2024-01-01       *)
(* (day 0); the time of day is left out.                                    *)

\* calendar.isleap
IsLeap(year) == (year % 4 = 0 /\ year % 100 # 0) \/ year % 400 = 0

DaysInYear(year) == IF IsLeap(year) THEN 366 ELSE 365

\* the day number of January 1st
RECURSIVE Jan1(_)
Jan1(year) == IF year <= 2024 THEN 0 ELSE Jan1(year - 1) + DaysInYear(year - 1)

\* date.weekday(): Monday is 0
Weekday(day) == day % 7

\* the years of the calendar of the model
Years == 2024..2027

\* date.year
YearOf(day) == CHOOSE year \in Years : Jan1(year) <= day /\ day < Jan1(year + 1)

\* the days before each month
DaysBeforeMonth(year) ==
    IF IsLeap(year) THEN <<0, 31, 60, 91, 121, 152, 182, 213, 244, 274, 305, 335, 366>>
                    ELSE <<0, 31, 59, 90, 120, 151, 181, 212, 243, 273, 304, 334, 365>>

\* strftime('%Y-%m-%d'): year, month and day of the month
DateStr(day) ==
    LET year == YearOf(day)
        n == day - Jan1(year)
        before == DaysBeforeMonth(year)
        month == CHOOSE m \in 1..12 : before[m] <= n /\ n < before[m + 1]
    IN  <<year, month, n - before[month] + 1>>

\* datetime.fromisoformat of a date string
FromIsoFormat(date_str) ==
    Jan1(date_str[1]) + DaysBeforeMonth(date_str[1])[date_str[2]] + date_str[3] - 1

\* date.isocalendar(): the ISO year and week are those of the Thursday of the
\* week that starts on Monday
isocalendar(day) ==
    LET thursday == day - Weekday(day) + 3
        year == IF thursday < Jan1(YearOf(day)) THEN YearOf(day) - 1
                ELSE IF thursday >= Jan1(YearOf(day) + 1) THEN YearOf(day) + 1
                ELSE YearOf(day)
    IN  [year |-> year, week |-> (thursday - Jan1(year)) \div 7 + 1,
         weekday |-> Weekday(day) + 1]

\* markdown_utils.get_week_string: f"{year}-W{week:02d}"
get_week_string(day) == <<isocalendar(day).year, "-W", isocalendar(day).week>>

\* datetime.strptime(f'{year}-W{week}-1', '%Y-W%W-%w'): %W counts the weeks of
\* the year from its first Monday (the days before it are week 0), and %w = 1
\* is Monday
strptime_W(year, week) ==
    LET first_weekday == Weekday(Jan1(year))
        week_0_length == (7 - first_weekday) % 7
    IN  IF week = 0 THEN Jan1(year) - first_weekday
        ELSE Jan1(year) + week_0_length + 7 * (week - 1)

\* "Calculate week boundaries (Monday to Sunday)": week_start of the weekly
\* generator
week_start(target_date) ==
    strptime_W(isocalendar(target_date).year, isocalendar(target_date).week)

week_end(target_date) == week_start(target_date) + 7

\* thirty more notes, for the samples of the generators
SampleDocs ==
    <<"d01.md", "d02.md", "d03.md", "d04.md", "d05.md", "d06.md", "d07.md", "d08.md",
      "d09.md", "d10.md", "d11.md", "d12.md", "d13.md", "d14.md", "d15.md", "d16.md",
      "d17.md", "d18.md", "d19.md", "d20.md", "d21.md", "d22.md", "d23.md", "d24.md",
      "d25.md", "d26.md", "d27.md", "d28.md", "d29.md", "d30.md">>

\* the order in which a scan returns the document records
ScanSeq == PathSeq \o SampleDocs

\* a set as a sequence, in an order that is fixed for each set
RECURSIVE SeqOf(_)
SeqOf(S) ==
    IF S = {} THEN <<>>
    ELSE LET x == CHOOSE x \in S : TRUE IN <<x>> \o SeqOf(S \ {x})

\* the order in which a scan goes through the items of the table: the document
\* records in the order of their paths, then the other records
ScanOrder(T) ==
    SelectSeq([n \in 1..Len(ScanSeq) |-> DocKey(ScanSeq[n])], LAMBDA k : k \in DOMAIN T)
    \o SeqOf({k \in DOMAIN T : \A n \in 1..Len(ScanSeq) : k # DocKey(ScanSeq[n])})

get_documents_modified_since_any(T, since) ==
    SelectSeq(ScanOrder(T),
              LAMBDA k : "modified" \in DOMAIN T[k] /\ T[k].modified >= since)

\* DynamoDBClient.get_documents_modified_since: the scan returns (the keys of)
\* the items that pass the filter
\* begins_with(PK, 'doc#') AND SK = 'metadata' AND modified >= since
get_documents_modified_since(T, since) ==
    SelectSeq(ScanOrder(T),
              LAMBDA k : /\ k[1][1] = "doc#"
                         /\ k[2] = MetaSK
                         /\ "modified" \in DOMAIN T[k]
                         /\ T[k].modified >= since)

\* "Filter documents within the target day" (or week): since <= modified < until
InWindow(T, docs, since, until) ==
    SelectSeq(docs, LAMBDA k : since <= T[k].modified /\ T[k].modified < until)

\* docs[:limit]
Take(docs, limit) == SubSeq(docs, 1, IF Len(docs) < limit THEN Len(docs) ELSE limit)

\* doc['PK'].replace('doc#', '') of each item
PathsOf(docs) == [n \in 1..Len(docs) |-> StripDocPrefix(docs[n][1])]

\* f'{date_str}.md' and f'{week_str}.md'
MdFile(name) == <<name, ".md">>

\* S3Client.get_daily_summary: the object at _agent/summaries/<date_str>.md, or
\* None (here: the empty record)
get_daily_summary(B, date_str) ==
    LET key == <<"_agent", <<"summaries">>, <<date_str, ".md">>>>
    IN  IF key \in DOMAIN B THEN B[key] ELSE NoValue

\* markdown_utils.create_summary_document
create_summary_document(date, source_docs, doc_count, t) ==
    [generated |-> t, period |-> "daily", heading |-> date,
     source_docs |-> doc_count, links |-> source_docs]

\* markdown_utils.create_weekly_report_document
create_weekly_report_document(week, source_count, t) ==
    [generated |-> t, period |-> "weekly", heading |-> week, source_docs |-> source_count]

\* the target date of a generator: event['date'] when the event has one, or the
\* clock minus the generator's default offset in days
TargetDate(event, offset) ==
    IF event.date = <<>> THEN now - offset ELSE FromIsoFormat(event.date)

\* the daily generator is invoked
StartDaily(i, event, budget) ==
    /\ CanStart(i, budget)
    /\ runs' = runs + 1
    /\ inv' = [inv EXCEPT ![i] =
            [Idle EXCEPT !.stage = "daily", !.pc = "read",
                         !.meta = [date |-> TargetDate(event, 1), documents |-> <<>>]]]
    /\ UNCHANGED <<table, vault, agent, source, triggers, now, recorded, prev, base>>

\* the scan, and the filter on the target day
DailyScan(i) ==
    /\ inv[i].stage = "daily" /\ inv[i].pc = "read"
    /\ LET since == inv[i].meta.date
           recent_docs == get_documents_modified_since(table, since)
           day_docs == InWindow(table, recent_docs, since, since + 1)
       IN  inv' = [inv EXCEPT ![i] =
                IF day_docs = <<>> THEN Finish(@, 200)
                ELSE [@ EXCEPT !.pc = "collect", !.todo = PathsOf(Take(day_docs, 20))]]
    /\ UNCHANGED <<table, vault, agent, source, triggers, now, recorded, runs, prev, base>>

\* the end of a turn of the loop over day_docs: after the last one, "No valid
\* documents to summarize" when nothing was collected
AfterDoc(r, documents) ==
    IF Len(r.todo) > 1
        THEN [r EXCEPT !.todo = Tail(@), !.meta.documents = documents]
    ELSE IF documents = <<>> THEN Finish(r, 200)
    ELSE [r EXCEPT !.pc = "model", !.todo = <<>>, !.meta.documents = documents]

\* one turn of the loop: agent-generated paths are skipped, the content of the
\* others is fetched and kept when it is not empty
DailyCollect(i) ==
    /\ inv[i].stage = "daily" /\ inv[i].pc = "collect"
    /\ LET doc_path == Head(inv[i].todo)
       IN  inv' = [inv EXCEPT ![i] =
                IF StartsWithDir(doc_path, "_agent") \/ get_object(vault, doc_path).empty
                    THEN AfterDoc(@, @.meta.documents)
                    ELSE AfterDoc(@, Append(@.meta.documents, doc_path))]
    /\ UNCHANGED <<table, vault, agent, source, triggers, now, recorded, runs, prev, base>>

\* the get_object of a turn raises: "Error retrieving", and the loop goes on
DailyCollectFail(i) ==
    /\ inv[i].stage = "daily" /\ inv[i].pc = "collect"
    /\ ~StartsWithDir(Head(inv[i].todo), "_agent")
    /\ inv' = [inv EXCEPT ![i] = AfterDoc([@ EXCEPT !.failed = TRUE], @.meta.documents)]
    /\ UNCHANGED <<table, vault, agent, source, triggers, now, recorded, runs, prev, base>>

\* bedrock_client.generate_summary(documents, model_id)
DailyModel(i) ==
    /\ inv[i].stage = "daily" /\ inv[i].pc = "model"
    /\ inv' = [inv EXCEPT ![i].pc = "upload"]
    /\ UNCHANGED <<table, vault, agent, source, triggers, now, recorded, runs, prev, base>>

\* put_agent_output('summaries', f'{date_str}.md', summary_doc)
DailyUpload(i) ==
    /\ inv[i].stage = "daily" /\ inv[i].pc = "upload"
    /\ LET date_str == DateStr(inv[i].meta.date)
           documents == inv[i].meta.documents
       IN  agent' = PutObject(agent, AgentKey(<<"summaries">>, MdFile(date_str)),
                        create_summary_document(date_str, documents, Len(documents), now))
    /\ inv' = [inv EXCEPT ![i] = Finish(@, 200)]
    /\ UNCHANGED <<table, vault, source, triggers, now, recorded, runs, prev, base>>

\* the weekly generator is invoked
StartWeekly(i, event, budget) ==
    /\ CanStart(i, budget)
    /\ runs' = runs + 1
    /\ inv' = [inv EXCEPT ![i] =
            [Idle EXCEPT !.stage = "weekly", !.pc = "read",
                         !.meta = [date |-> TargetDate(event, 7), document_count |-> 0,
                                   documents |-> <<>>, daily_summaries |-> <<>>]]]
    /\ UNCHANGED <<table, vault, agent, source, triggers, now, recorded, prev, base>>

\* the scan, the filter on the week, and the sample of documents
WeeklyScan(i) ==
    /\ inv[i].stage = "weekly" /\ inv[i].pc = "read"
    /\ LET target_date == inv[i].meta.date
           week_docs == get_documents_modified_since(table, week_start(target_date))
           week_docs_filtered ==
               InWindow(table, week_docs, week_start(target_date), week_end(target_date))
       IN  inv' = [inv EXCEPT ![i] =
                [@ EXCEPT !.pc = "summaries",
                          !.meta.document_count = Len(week_docs_filtered),
                          !.meta.documents =
                               SelectSeq(PathsOf(Take(week_docs_filtered, 30)),
                                         LAMBDA doc_path : ~StartsWithDir(doc_path, "_agent"))]]
    /\ UNCHANGED <<table, vault, agent, source, triggers, now, recorded, runs, prev, base>>

\* "Retrieve daily summaries for the week": the dates of the seven days from
\* week_start whose rollup is there
WeeklySummaries(i) ==
    /\ inv[i].stage = "weekly" /\ inv[i].pc = "summaries"
    /\ LET start == week_start(inv[i].meta.date)
           days == [n \in 1..7 |-> DateStr(start + n - 1)]
       IN  inv' = [inv EXCEPT ![i] =
                [@ EXCEPT !.pc = "model",
                          !.meta.daily_summaries =
                               SelectSeq(days, LAMBDA day_str :
                                            get_daily_summary(agent, day_str) # NoValue)]]
    /\ UNCHANGED <<table, vault, agent, source, triggers, now, recorded, runs, prev, base>>

\* bedrock_client.generate_weekly_report(week_data, model_id)
WeeklyModel(i) ==
    /\ inv[i].stage = "weekly" /\ inv[i].pc = "model"
    /\ inv' = [inv EXCEPT ![i].pc = "upload"]
    /\ UNCHANGED <<table, vault, agent, source, triggers, now, recorded, runs, prev, base>>

\* put_agent_output('reports/weekly', f'{week_str}.md', report_doc)
WeeklyUpload(i) ==
    /\ inv[i].stage = "weekly" /\ inv[i].pc = "upload"
    /\ LET week_str == get_week_string(inv[i].meta.date)
       IN  agent' = PutObject(agent, AgentKey(<<"reports", "weekly">>, MdFile(week_str)),
                        create_weekly_report_document(week_str, inv[i].meta.document_count, now))
    /\ inv' = [inv EXCEPT ![i] = Finish(@, 200)]
    /\ UNCHANGED <<table, vault, source, triggers, now, recorded, runs, prev, base>>

\* the days of the generators' runs: 2024-01-03, 2026-01-11 and 2026-01-17, and
\* Sunday 2026-01-18 as the day of the clock
ReportDays == {2, 741, 747}

Today == 748

\* the documents of the index, each modified on one of the days
ReportDocs == {"a.md", "b.md", "_agent/s.md"}

\* the document records, and the membership records of a.md: tag x and Ann
ReportTables ==
    {PutItem(PutItem(
        [k \in {DocKey(p) : p \in ReportDocs} |->
            [PK |-> k[1], SK |-> k[2], title |-> "Plain",
             modified |-> m[StripDocPrefix(k[1])]]],
        TagItem("x", "a.md", m["a.md"])),
        EntityItem("a.md", "people", "Ann", m["a.md"]))
     : m \in [ReportDocs -> ReportDays]}

\* a.md has content, b.md is empty
ReportVault == [p \in ReportDocs |-> IF p = "b.md" THEN EmptyContent ELSE PlainContent]

\* the events of the generators: without a date, or with a date override
ReportEvents == {[date |-> <<>>]} \cup {[date |-> DateStr(day)] : day \in {2, 741, 1096, 1101}}

InitReports ==
    /\ table \in ReportTables
    /\ vault = ReportVault
    /\ agent = NoValue
    /\ source = NoValue
    /\ triggers = {}
    /\ now = Today
    /\ inv = [i \in Invs |-> Idle]
    /\ recorded = {}
    /\ runs = 0
    /\ prev = NoRun
    /\ base = table

NextReports ==
    \/ \E event \in ReportEvents : StartDaily(1, event, MaxReports)
    \/ \E event \in ReportEvents : StartWeekly(1, event, MaxReports)
    \/ Fail(1)
    \/ DailyScan(1)
    \/ DailyCollect(1)
    \/ DailyCollectFail(1)
    \/ DailyModel(1)
    \/ DailyUpload(1)
    \/ WeeklyScan(1)
    \/ WeeklySummaries(1)
    \/ WeeklyModel(1)
    \/ WeeklyUpload(1)

SpecReports == InitReports /\ [][NextReports]_vars

\* the generators on a large index: a.md and the first n of the thirty notes,
\* with or without a record of a generated artifact and of an empty note, all
\* modified on 2024-01-03
SampleTable(n, extra) ==
    [k \in {DocKey(p) : p \in {"a.md"} \cup extra \cup {SampleDocs[j] : j \in 1..n}} |->
        [PK |-> k[1], SK |-> k[2], title |-> "Plain", modified |-> 2]]

SampleTables ==
    {SampleTable(n, extra) : n \in {18, 19, 29}, extra \in SUBSET {"_agent/s.md", "b.md"}}

\* every note has content, except b.md
SampleVault ==
    [p \in {"a.md", "b.md", "_agent/s.md"} \cup {SampleDocs[j] : j \in 1..Len(SampleDocs)} |->
        IF p = "b.md" THEN EmptyContent ELSE PlainContent]

SampleEvents == {[date |-> DateStr(2)]}

InitSample ==
    /\ table \in SampleTables
    /\ vault = SampleVault
    /\ agent = NoValue
    /\ source = NoValue
    /\ triggers = {}
    /\ now = Today
    /\ inv = [i \in Invs |-> Idle]
    /\ recorded = {}
    /\ runs = 0
    /\ prev = NoRun
    /\ base = table

\* at most one get_object of a daily run raises
NextSample ==
    \/ \E event \in SampleEvents : StartDaily(1, event, MaxSamples)
    \/ \E event \in SampleEvents : StartWeekly(1, event, MaxSamples)
    \/ DailyScan(1)
    \/ DailyCollect(1)
    \/ (~inv[1].failed /\ DailyCollectFail(1))
    \/ DailyModel(1)
    \/ DailyUpload(1)
    \/ WeeklyScan(1)
    \/ WeeklySummaries(1)
    \/ WeeklyModel(1)
    \/ WeeklyUpload(1)

SpecSample == InitSample /\ [][NextSample]_vars

\* create_classification_index on mappings of every shape: labels missing,
\* labels mapped to the empty list, paths in any order
PathLists == {<<>>, <<"a.md">>, <<"b.md", "a.md">>}

ClassificationInputs ==
    UNION {[present -> PathLists] : present \in SUBSET Labels}

\* the index is rendered from a mapping and uploaded (source keeps the mapping)
RenderIndex(classifications) ==
    /\ agent' = PutObject(agent, IndexKey, create_classification_index(classifications, now))
    /\ source' = PutObject(source, IndexKey, classifications)
    /\ UNCHANGED <<table, vault, triggers, now, inv, recorded, runs, prev, base>>

InitIndex == InitOf(NoValue, {EventVault})

NextIndex ==
    \/ Tick
    \/ \E classifications \in ClassificationInputs : RenderIndex(classifications)

SpecIndex == InitIndex /\ [][NextIndex]_vars

\* the pipeline on a note that is edited between the runs: a.md starts as the
\* plain note (tag x) and may be rewritten with other tags or none
RevisedContents == {PlainContent, FrontContent, NullContent}

\* the user saves a new revision of the note
Revise(p, content) ==
    /\ vault[p] # content
    /\ vault' = [vault EXCEPT ![p] = content]
    /\ UNCHANGED <<table, agent, source, triggers, now, inv, recorded, runs, prev, base>>

InitRevise == InitOf(NoValue, {[p \in Paths |-> PlainContent]})

NextRevise ==
    \/ Steps
    \/ \E content \in RevisedContents : Revise("a.md", content)
    \/ \E stage \in Stages : Start(1, stage, "a.md", MaxRuns)
    \/ \E payload \in triggers, again \in BOOLEAN : StartRebuild(1, payload, again, MaxRuns)

SpecRevise == InitRevise /\ [][NextRevise]_vars

----------------------------------------------------------------------------
(* markdown_utils on the text of a note. A string is the sequence of its   *)
(* characters; the operators above work on what the three extractions      *)
(* return, the ones below compute it from the characters.                  *)

\* the characters of the model
Chars == {"a", "b", "x", "T", "7", "#", "[", "]", "|", ",", " ", "\n"}

\* the character classes \s and [a-zA-Z0-9_-]
SpaceChars == {" ", "\n"}
TagChars == {"a", "b", "x", "T", "7"}
Space(c) == c \in SpaceChars

\* str.strip
RECURSIVE lstrip(_)
lstrip(s) == IF s # <<>> /\ Space(Head(s)) THEN lstrip(Tail(s)) ELSE s

RECURSIVE rstrip(_)
rstrip(s) == IF s # <<>> /\ Space(s[Len(s)]) THEN rstrip(SubSeq(s, 1, Len(s) - 1)) ELSE s

strip(s) == rstrip(lstrip(s))

\* str.split(sep)
RECURSIVE split(_, _)
split(s, sep) ==
    IF \A n \in 1..Len(s) : s[n] # sep THEN <<s>>
    ELSE LET n == CHOOSE n \in 1..Len(s) :
                      s[n] = sep /\ \A m \in 1..(n - 1) : s[m] # sep
         IN  <<SubSeq(s, 1, n - 1)>> \o split(SubSeq(s, n + 1, Len(s)), sep)

\* the values of a parsed frontmatter: a string, an integer or a list of values
StrValue(s) == [type |-> "str", val |-> s]
IntValue(n) == [type |-> "int", val |-> n]
ListValue(l) == [type |-> "list", val |-> l]

\* str(value) of a string or of an integer 0..9
str(v) ==
    IF v.type = "str" THEN v.val
    ELSE <<(<<"0", "1", "2", "3", "4", "5", "6", "7", "8", "9">>)[v.val + 1]>>

\* the end of the longest run of characters in the class that starts at j
\* (j - 1 when s[j] is not in the class)
RECURSIVE RunEnd(_, _, _)
RunEnd(s, j, class) ==
    IF j <= Len(s) /\ s[j] \in class THEN RunEnd(s, j + 1, class) ELSE j - 1

\* re.findall(r'(?:^|\s)#([a-zA-Z0-9_-]+)', content) from position i on
RECURSIVE hashtag_findall(_, _)
hashtag_findall(s, i) ==
    IF i > Len(s) THEN <<>>
    ELSE LET h == IF i = 1 /\ s[1] = "#" THEN 1
                  ELSE IF Space(s[i]) /\ i + 1 <= Len(s) /\ s[i + 1] = "#" THEN i + 1
                  ELSE 0
             e == IF h = 0 THEN 0 ELSE RunEnd(s, h + 1, TagChars)
         IN  IF h # 0 /\ e > h
                 THEN <<SubSeq(s, h + 1, e)>> \o hashtag_findall(s, e + 1)
                 ELSE hashtag_findall(s, i + 1)

\* the character classes [^\]|] and [^\]]
NotBracketOrBar == Chars \ {"]", "|"}
NotBracket == Chars \ {"]"}

\* "]]" at positions j and j + 1
Closes(s, j) == j + 1 <= Len(s) /\ s[j] = "]" /\ s[j + 1] = "]"

\* re.findall(r'\[\[([^\]|]+)(?:\|[^\]]+)?\]\]', content) from position i on:
\* g is the end of group 1, r the end of the display text
RECURSIVE wikilink_findall(_, _)
wikilink_findall(s, i) ==
    IF i + 1 > Len(s) THEN <<>>
    ELSE LET g == RunEnd(s, i + 2, NotBracketOrBar)
             r == RunEnd(s, g + 2, NotBracket)
             end == IF s[i] # "[" \/ s[i + 1] # "[" \/ g < i + 2 THEN 0
                    ELSE IF g + 1 <= Len(s) /\ s[g + 1] = "|"
                        THEN IF r >= g + 2 /\ Closes(s, r + 1) THEN r + 2 ELSE 0
                    ELSE IF Closes(s, g + 1) THEN g + 2
                    ELSE 0
         IN  IF end # 0
                 THEN <<SubSeq(s, i + 2, g)>> \o wikilink_findall(s, end + 1)
                 ELSE wikilink_findall(s, i + 1)

\* the character class of '.'
NotNewline == Chars \ {"\n"}

\* re.search(r'^#\s+(.+)$', content, re.MULTILINE) from position i on: group 1
\* of the first match, <<"\n">> when there is none (no group holds a newline).
\* \s+ takes the whole run of white space after the '#', newlines included;
\* when the run ends the text, it gives back characters until (.+) can start
RECURSIVE h1_search(_, _)
h1_search(s, i) ==
    IF i > Len(s) THEN <<"\n">>
    ELSE LET w == RunEnd(s, i + 1, SpaceChars)
             starts == IF w < Len(s) THEN {w + 1}
                       ELSE {q \in (i + 2)..w : s[q] # "\n"}
             start == CHOOSE q \in starts : \A q2 \in starts : q2 <= q
         IN  IF /\ i = 1 \/ s[i - 1] = "\n"
                /\ s[i] = "#"
                /\ w >= i + 1
                /\ starts # {}
                 THEN SubSeq(s, start, RunEnd(s, start, NotNewline))
                 ELSE h1_search(s, i + 1)

Untitled == <<"U", "n", "t", "i", "t", "l", "e", "d">>

\* extract_wikilinks on the characters of the body: list(set(...)) of the
\* stripped targets
extract_wikilinks_raw(content) ==
    SeqOf({wikilink_findall(content, 1)[n] : n \in 1..Len(wikilink_findall(content, 1))})

extract_wikilinks_str(content) ==
    LET matches == wikilink_findall(content, 1)
    IN  SeqOf({strip(matches[n]) : n \in 1..Len(matches)})

\* `if frontmatter:` is false for None and for the empty mapping alike
extract_tags_list(content, frontmatter) ==
    (IF "tags" \in DOMAIN frontmatter
        THEN IF frontmatter["tags"].type = "list"
                 THEN [n \in 1..Len(frontmatter["tags"].val) |->
                          strip(str(frontmatter["tags"].val[n]))]
             ELSE IF frontmatter["tags"].type = "str"
                 THEN [n \in 1..Len(split(frontmatter["tags"].val, ",")) |->
                          strip(split(frontmatter["tags"].val, ",")[n])]
             ELSE <<>>
        ELSE <<>>)
    \o hashtag_findall(content, 1)

\* extract_tags on the characters of the body and the parsed frontmatter:
\* list(tags) of the set that was updated from the two sources
extract_tags_str(content, frontmatter) ==
    LET fm_tags == IF "tags" \in DOMAIN frontmatter THEN frontmatter["tags"]
                   ELSE IntValue(0)
        from_frontmatter ==
            IF fm_tags.type = "list"
                THEN {strip(str(fm_tags.val[n])) : n \in 1..Len(fm_tags.val)}
            ELSE IF fm_tags.type = "str"
                THEN {strip(split(fm_tags.val, ",")[n]) :
                         n \in 1..Len(split(fm_tags.val, ","))}
            ELSE {}
        inline_tags == hashtag_findall(content, 1)
    IN  SeqOf(from_frontmatter \cup {inline_tags[n] : n \in 1..Len(inline_tags)})

\* extract_title on the characters of the body and the parsed frontmatter
extract_title_str(content, frontmatter) ==
    IF "title" \in DOMAIN frontmatter THEN strip(str(frontmatter["title"]))
    ELSE IF h1_search(content, 1) # <<"\n">> THEN strip(h1_search(content, 1))
    ELSE Untitled

\* the pieces an author types: a word with a '#' inside, two hashtags, a link,
\* a link with blanks around its target, a link with a display text, and the
\* mark of a first-level heading
Piece(kind, text, name) == [kind |-> kind, text |-> text, name |-> name]

Pieces ==
    {Piece("word", <<"x", "#", "a">>, <<>>),
     Piece("tag", <<"#", "a">>, <<"a">>),
     Piece("tag", <<"#", "b">>, <<"b">>),
     Piece("link", <<"[", "[", "a", "]", "]">>, <<"a">>),
     Piece("link", <<"[", "[", " ", "a", " ", "]", "]">>, <<"a">>),
     Piece("link", <<"[", "[", "b", "|", "a", "]", "]">>, <<"b">>),
     Piece("mark", <<"#">>, <<>>)}

\* the pieces of a line are separated by one blank, the lines by a newline
RECURSIVE Join(_, _)
Join(texts, sep) ==
    IF texts = <<>> THEN <<>>
    ELSE IF Len(texts) = 1 THEN texts[1]
    ELSE texts[1] \o <<sep>> \o Join(Tail(texts), sep)

LineText(line) == Join([n \in 1..Len(line) |-> line[n].text], " ")
BodyText(lines) == Join([n \in 1..Len(lines) |-> LineText(lines[n])], "\n")

\* the frontmatters of the notes, as yaml.safe_load returns them: none, a title
\* (plain or with blanks around it), tags as a list, as a comma-separated
\* string, as a list with a number, and tags that are neither
Frontmatters ==
    {NoValue,
     [title |-> StrValue(<<"T">>)],
     [title |-> StrValue(<<" ", "T", " ">>)],
     [tags |-> ListValue(<<StrValue(<<"a">>), StrValue(<<" ", "b", " ">>)>>)],
     [tags |-> StrValue(<<"a", ",", " ", "b", ",", "a">>)],
     [tags |-> ListValue(<<IntValue(7), StrValue(<<"7">>)>>)],
     [title |-> StrValue(<<"T">>), tags |-> IntValue(7)]}

Lines == {<<>>} \cup {<<p>> : p \in Pieces} \cup {<<p, q>> : p \in Pieces, q \in Pieces}

\* notes of at most two lines
TextNotes ==
    {[frontmatter |-> f, lines |-> l] :
        f \in Frontmatters,
        l \in {<<>>} \cup {<<m>> : m \in Lines} \cup {<<m, n>> : m \in Lines, n \in Lines}}

\* parse_markdown_metadata on the text of a.md: the three extractions
ParseText ==
    /\ inv[1].pc = "idle"
    /\ LET frontmatter == vault["a.md"].frontmatter
           body == BodyText(vault["a.md"].lines)
       IN  inv' = [inv EXCEPT ![1] =
                      [Idle EXCEPT !.stage = "metadata", !.path = "a.md", !.pc = "done",
                                   !.meta = [title |-> extract_title_str(body, frontmatter),
                                             tags |-> extract_tags_str(body, frontmatter),
                                             links_to |-> extract_wikilinks_str(body)]]]
    /\ UNCHANGED <<table, vault, agent, source, triggers, now, recorded, runs, prev, base>>

InitText == InitOf(NoValue, {[p \in {"a.md"} |-> note] : note \in TextNotes})

NextText == ParseText

SpecText == InitText /\ [][NextText]_vars

----------------------------------------------------------------------------
(* sanitize_filename on the characters of a name. "U+0130" is the capital  *)
(* I with a dot above, whose str.lower() is "i" followed by the combining  *)
(* dot above "U+0307".                                                     *)

UpperCase == <<"A", "C", "E", "F", "N", "P", "R", "S", "T", "U">>
LowerCase == <<"a", "c", "e", "f", "n", "p", "r", "s", "t", "u">>

\* the characters \w matches: letters, digits and the underscore
WordChars ==
    {UpperCase[n] : n \in 1..Len(UpperCase)} \cup {LowerCase[n] : n \in 1..Len(LowerCase)}
    \cup {"b", "i", "l", "m", "U+0130", "7", "_"}

\* str.lower() of one character
lower_char(c) ==
    IF c = "U+0130" THEN <<"i", "U+0307">>
    ELSE IF \E n \in 1..Len(UpperCase) : UpperCase[n] = c
        THEN <<LowerCase[CHOOSE n \in 1..Len(UpperCase) : UpperCase[n] = c]>>
    ELSE <<c>>

\* name.replace(' ', '-')
RECURSIVE replace_spaces(_)
replace_spaces(s) ==
    IF s = <<>> THEN <<>>
    ELSE <<IF Head(s) = " " THEN "-" ELSE Head(s)>> \o replace_spaces(Tail(s))

\* re.sub(r'[^\w\-.]', '', name)
remove_invalid(s) == SelectSeq(s, LAMBDA c : c \in WordChars \cup {"-", "."})

\* name.lower()
RECURSIVE lower(_)
lower(s) == IF s = <<>> THEN <<>> ELSE lower_char(Head(s)) \o lower(Tail(s))

\* name.strip('-')
RECURSIVE strip_hyphens(_)
strip_hyphens(s) ==
    IF s # <<>> /\ Head(s) = "-" THEN strip_hyphens(Tail(s))
    ELSE IF s # <<>> /\ s[Len(s)] = "-" THEN strip_hyphens(SubSeq(s, 1, Len(s) - 1))
    ELSE s

\* markdown_utils.sanitize_filename, statement by statement
sanitize_filename_str(name) ==
    strip_hyphens(lower(remove_invalid(replace_spaces(name))))

TestFileName == <<"T", "e", "s", "t", " ", "F", "i", "l", "e", " ", "N", "a", "m", "e">>
UPPERCASE == <<"U", "P", "P", "E", "R", "C", "A", "S", "E">>

\* the names of at most three characters, and the two names of the unit test
NameChars == {"A", "b", " ", "-", ".", "/", "_", "U+0130"}
NameTexts ==
    {<<>>} \cup {<<c>> : c \in NameChars} \cup {<<c, d>> : c \in NameChars, d \in NameChars}
    \cup {<<c, d, e>> : c \in NameChars, d \in NameChars, e \in NameChars}
    \cup {TestFileName, UPPERCASE}

\* the entity stage is about to upload the page of one person
InitNames ==
    /\ table = NoValue /\ base = NoValue
    /\ vault = EventVault
    /\ agent = NoValue /\ source = NoValue
    /\ triggers = {} /\ recorded = {}
    /\ now = 0 /\ runs = 0 /\ prev = NoRun
    /\ \E name \in NameTexts :
           inv = [i \in Invs |->
                     IF i = 1
                         THEN [Idle EXCEPT !.stage = "entities", !.path = "a.md",
                                           !.pc = "upload", !.todo = <<<<"people", name>>>>]
                         ELSE Idle]

\* put_agent_output(f'entities/{entity_type}', f'{sanitize_filename(entity_name)}.md')
UploadName ==
    /\ inv[1].stage = "entities" /\ inv[1].pc = "upload"
    /\ agent' = PutObject(agent,
                          AgentKey(<<"entities", Head(inv[1].todo)[1]>>,
                                   sanitize_filename_str(Head(inv[1].todo)[2])),
                          Head(inv[1].todo)[2])
    /\ inv' = [inv EXCEPT ![1].pc = "done"]
    /\ UNCHANGED <<table, vault, source, triggers, now, recorded, runs, prev, base>>

NextNames == UploadName

SpecNames == InitNames /\ [][NextNames]_vars

----------------------------------------------------------------------------
(* The classification stage and the index rebuilds it triggers, MaxInv of  *)
(* them in flight at once; no call fails.                                 *)

InitRebuild == InitOf(NoValue, {[p \in Paths |-> PlainContent]})

NextRebuild ==
    \/ \E i \in Invs, p \in Paths : Start(i, "classify", p, MaxRebuilds)
    \/ \E i \in Invs, payload \in triggers : StartRebuild(i, payload, FALSE, MaxRebuilds)
    \/ \E i \in Invs : ClassifyFetch(i)
    \/ \E i \in Invs, response \in ClassifyResponses : ClassifyModel(i, response)
    \/ \E i \in Invs : ClassifyPut(i)
    \/ \E i \in Invs : ClassifyTrigger(i)
    \/ \E i \in Invs : RebuildRead(i)
    \/ \E i \in Invs : RebuildWrite(i)

SpecRebuild == InitRebuild /\ [][NextRebuild]_vars

----------------------------------------------------------------------------
(* The engine's own uploads come back as events: the bucket notifies the   *)
(* three document stages of every object written, generated blobs          *)
(* included.                                                               *)

\* the filter of a document handler on the key of a generated blob, the string
\* f'{key[1]}/{output_type}/{filename}': startswith('_agent/') or
\* startswith('.obsidian/') looks at its first segment
BlobSkipped(stage, key) == key[1] \in {"_agent", ".obsidian"}

\* the head of a document handler on the event of a generated blob (the names
\* of the blobs all end with .md; bucket and key are present): the object key
\* is kept in the field blob, as the segments put_agent_output joined
EntryBlob(stage, key) ==
    LET r == [Idle EXCEPT !.stage = stage, !.blob = key, !.bucket = "vault"]
    IN  IF BlobSkipped(stage, key) THEN Finish(r, 200)
        ELSE [r EXCEPT !.pc = "fetch"]

\* the event of a generated blob is delivered to a document stage
DeliverBlob(i, stage, key, budget) ==
    /\ CanStart(i, budget)
    /\ key \in DOMAIN agent
    /\ runs' = runs + 1
    /\ inv' = [inv EXCEPT ![i] = EntryBlob(stage, key)]
    /\ UNCHANGED <<table, vault, agent, source, triggers, now, recorded, prev, base>>

\* a.md is indexed, modified on 2026-01-11; the clock is at 2026-01-18
InitIngest ==
    /\ table = [k \in {DocKey("a.md")} |->
                   [PK |-> k[1], SK |-> k[2], title |-> "Plain", modified |-> 741]]
    /\ base = table
    /\ vault = [p \in Paths |-> PlainContent]
    /\ agent = NoValue /\ source = NoValue
    /\ triggers = {} /\ recorded = {}
    /\ now = Today /\ runs = 0 /\ prev = NoRun
    /\ inv = [i \in Invs |-> Idle]

NextIngest ==
    \/ \E stage \in Stages : Start(1, stage, "a.md", MaxRuns)
    \/ \E payload \in triggers : StartRebuild(1, payload, FALSE, MaxRuns)
    \/ \E stage \in Stages, key \in DOMAIN agent : DeliverBlob(1, stage, key, MaxRuns)
    \/ StartDaily(1, [date |-> DateStr(741)], MaxRuns)
    \/ StartWeekly(1, [date |-> DateStr(741)], MaxRuns)
    \/ MetaFetch(1)
    \/ MetaPut(1)
    \/ \E tag \in {"x", "y"} : MetaTag(1, tag)
    \/ ClassifyFetch(1)
    \/ \E response \in ClassifyResponses : ClassifyModel(1, response)
    \/ ClassifyPut(1)
    \/ ClassifyTrigger(1)
    \/ EntFetch(1)
    \/ \E response \in EntityResponses : EntModel(1, response)
    \/ StoreUpdate(1)
    \/ StoreMember(1)
    \/ EntQuery(1)
    \/ EntUpload(1)
    \/ RebuildRead(1)
    \/ RebuildWrite(1)
    \/ DailyScan(1)
    \/ DailyCollect(1)
    \/ DailyModel(1)
    \/ DailyUpload(1)
    \/ WeeklyScan(1)
    \/ WeeklySummaries(1)
    \/ WeeklyModel(1)
    \/ WeeklyUpload(1)

SpecIngest == InitIngest /\ [][NextIngest]_vars

-----------------------------------------------------------------------------
(* The index is rebuilt over a large table: b.md is a meeting note, and the *)
(* first n of the hundred and one notes are ideas, each modified on a day   *)
(* of its own. a.md is classified and the index rebuilt, one invocation at  *)
(* a time.                                                                 *)

ListingTable(n) ==
    [k \in {DocKey(p) : p \in {"b.md"} \cup {ManyDocs[j] : j \in 1..n}} |->
        [PK |-> k[1], SK |-> k[2], title |-> "Plain",
         classification |-> IF k = DocKey("b.md") THEN "meeting" ELSE "idea",
         modified |-> KeyRank(k[1][2])]]

ListingTables == {ListingTable(n) : n \in {99, 100, 101}}

InitListing ==
    /\ table \in ListingTables
    /\ base = table
    /\ vault = [p \in Paths |-> PlainContent]
    /\ agent = NoValue /\ source = NoValue
    /\ triggers = {} /\ recorded = {}
    /\ now = Today /\ runs = 0 /\ prev = NoRun
    /\ inv = [i \in Invs |-> Idle]

NextListing ==
    \/ Start(1, "classify", "a.md", MaxRebuilds)
    \/ \E payload \in triggers : StartRebuild(1, payload, FALSE, MaxRebuilds)
    \/ ClassifyFetch(1)
    \/ \E response \in ClassifyResponses : ClassifyModel(1, response)
    \/ ClassifyPut(1)
    \/ ClassifyTrigger(1)
    \/ RebuildRead(1)
    \/ RebuildWrite(1)

SpecListing == InitListing /\ [][NextListing]_vars

----------------------------------------------------------------------------
(* Helpers of the properties *)

\* an item, a table without the modified timestamps
NoModified(item) == [a \in DOMAIN item \ {"modified"} |-> item[a]]
TableNoModified(T) == [k \in DOMAIN T |-> NoModified(T[k])]

\* the attributes of the record of key k in T, none when the record is absent
Attributes(T, k) == IF k \in DOMAIN T THEN DOMAIN T[k] ELSE {}

\* records other than the one of key k are the same in T and U
SameElsewhere(T, U, k) ==
    /\ DOMAIN U \ {k} = DOMAIN T \ {k}
    /\ \A j \in DOMAIN T \ {k} : U[j] = T[j]

\* the record of key k has the same attributes and values in T and U, apart from `apart`
SameApartFrom(T, U, k, apart) ==
    /\ Attributes(U, k) \ apart = Attributes(T, k) \ apart
    /\ \A a \in Attributes(T, k) \ apart : U[k][a] = T[k][a]

KeyAttributes == {"PK", "SK"}

EntityKeysOf(T, p) == {k \in DOMAIN T : k[1][1] = "entity#" /\ k[2] = DocSK(p)}

----------------------------------------------------------------------------
(* C1: a full replace (put_document_metadata) computed from metadata that  *)
(* lacks an attribute a partial merge wrote, applied after the merge,      *)
(* leaves the record it writes without that attribute, and no invocation   *)
(* reports an error: the loss is silent, and it is reachable.              *)

MergedAttributes == {"entities", "classification"}

C1_SilentLoss ==
    [][\A i \in Invs : \A a \in MergedAttributes :
        LET k == KeyOf(PutDocumentItem(inv[i].path, inv[i].meta, now))
        IN  (/\ inv[i].pc = "put" /\ inv'[i].pc # "put"
             /\ table' = put_document_metadata(table, inv[i].path, inv[i].meta, now)
             /\ a \in Attributes(table, k)
             /\ a \notin DOMAIN inv[i].meta)
            => (/\ a \notin Attributes(table', k)
                /\ inv'[i].status # 500
                /\ \A j \in Invs \ {i} : inv'[j].status = inv[j].status)]_vars

\* the entity stage and the metadata stage of one path both returned 200, the
\* membership records are there and the document record has no entities
C1_Witness ==
    \E p \in Paths :
        /\ inv[1].stage = "entities" /\ inv[1].path = p
        /\ inv[2].stage = "metadata" /\ inv[2].path = p
        /\ \A i \in Invs : inv[i].pc = "done" /\ inv[i].status = 200
        /\ DocKey(p) \in DOMAIN table
        /\ "entities" \notin DOMAIN table[DocKey(p)]
        /\ EntityKeysOf(table, p) # {}

----------------------------------------------------------------------------
(* C2: update_classification(p, label) and store_entities(p, entities)     *)
(* commute: whatever the interleaving of their writes, once both have      *)
(* returned the table is, timestamps apart, the one either sequential      *)
(* order gives from the table they started on.                             *)

\* u and s are the only calls made: an update_classification and a store_entities
\* of one path, both returned without error
BothReturned(u, s) ==
    /\ runs = 2
    /\ inv[u].stage = "uc" /\ inv[s].stage = "se"
    /\ inv[u].path = inv[s].path
    /\ inv[u].pc = "done" /\ inv[u].status = 200
    /\ inv[s].pc = "done" /\ inv[s].status = 200

C2_Commute ==
    \A u \in Invs, s \in Invs :
        BothReturned(u, s) =>
            LET p == inv[u].path
                first == store_entities(
                            update_classification(base, p, inv[u].label, 0),
                            p, inv[s].ents, 0)
                second == update_classification(
                            store_entities(base, p, inv[s].ents, 0),
                            p, inv[u].label, 0)
            IN  /\ TableNoModified(table) = TableNoModified(first)
                /\ TableNoModified(table) = TableNoModified(second)

\* both returned on a record that held an older classification and older entities
C2_Witness ==
    \E u \in Invs, s \in Invs :
        /\ BothReturned(u, s)
        /\ DocKey(inv[u].path) \in DOMAIN base
        /\ "classification" \in DOMAIN base[DocKey(inv[u].path)]
        /\ table[DocKey(inv[u].path)].classification
                # base[DocKey(inv[u].path)].classification
        /\ table[DocKey(inv[u].path)].entities # base[DocKey(inv[u].path)].entities
        /\ table[DocKey(inv[u].path)].title = "Plain"

----------------------------------------------------------------------------
(* C3: the classification stage persists its label as a partial merge:     *)
(* every attribute that the document record of p held before the stage's   *)
(* write, other than classification and modified, is still there with the  *)
(* same value after it (entities, created, ...). The write is the stage's   *)
(* only one: the trigger that follows leaves the table alone.              *)

\* the attributes of the record of key k in T, apart from `apart`, are kept in U
Preserved(T, U, k, apart) ==
    \A a \in Attributes(T, k) \ apart : a \in Attributes(U, k) /\ U[k][a] = T[k][a]

C3_ClassifyMerges ==
    [][\A i \in Invs :
        (/\ inv[i].stage = "classify" /\ inv[i].pc = "put"
         /\ inv'[i].pc = "trigger")
        => Preserved(table, table', DocKey(inv[i].path), {"classification", "modified"})]_vars

----------------------------------------------------------------------------
(* C4: put_document_metadata(p, m) is a full replace: after the call the    *)
(* document record of p holds exactly the key of p, the attributes of m    *)
(* and modified (the time of the call when m has none), whatever the       *)
(* record held before.                                                     *)

C4_FullReplace ==
    [][\A i \in Invs :
        (/\ inv[i].stage = "put" /\ inv[i].pc = "call"
         /\ inv'[i].pc = "done" /\ inv'[i].status = 200)
        => LET k == DocKey(inv[i].path)
               m == inv[i].meta
           IN  /\ k \in DOMAIN table'
               /\ table'[k] = [PK |-> DocPK(inv[i].path), SK |-> MetaSK]
                              @@ m @@ [modified |-> now]]_vars

----------------------------------------------------------------------------
(* C5: update_classification(p, label) changes only classification and     *)
(* modified of the document record of p: the other attributes of that      *)
(* record keep their values (a record the call creates holds its key and   *)
(* nothing else), and every other record of the table is unchanged.        *)

C5_UpdateFrame ==
    [][\A i \in Invs :
        (/\ inv[i].stage = "uc" /\ inv[i].pc = "call"
         /\ inv'[i].pc = "done" /\ inv'[i].status = 200)
        => LET k == DocKey(inv[i].path)
               apart == {"classification", "modified"}
           IN  /\ SameElsewhere(table, table', k)
               /\ k \in DOMAIN table'
               /\ table'[k].classification = inv[i].label
               /\ IF k \in DOMAIN table
                     THEN SameApartFrom(table, table', k, apart)
                     ELSE Attributes(table', k) \ apart = KeyAttributes]_vars

\* the call returned on a record that holds other attributes, in a table that
\* holds other records
C5_Witness ==
    \E p \in Paths :
        /\ inv[1].stage = "uc" /\ inv[1].path = p
        /\ inv[1].pc = "done" /\ inv[1].status = 200
        /\ {"title", "created", "entities"} \subseteq Attributes(table, DocKey(p))
        /\ table[DocKey(p)].classification = inv[1].label
        /\ DOMAIN table \ {DocKey(p)} # {}

----------------------------------------------------------------------------
(* C6: store_entities(p, entities) that completes without error: its first *)
(* write sets the entities attribute of the document record of p to the    *)
(* given map and leaves the other attributes, modified apart, unchanged;   *)
(* the membership writes leave that record alone; when it returns, an      *)
(* entity-membership record of key (entity key of (t, lowercase(n)), p)    *)
(* exists for every type t and every name n of entities[t].                *)

C6_StoreEntities ==
    [][\A i \in Invs :
        (/\ inv[i].stage = "se" /\ inv[i].pc \in {"update", "members"}
         /\ inv'[i] # inv[i] /\ inv'[i].status # 500)
        => LET p == inv[i].path
               k == DocKey(p)
               entities == inv[i].ents
               apart == {"entities", "modified"}
           IN  /\ k \in DOMAIN table'
               /\ table'[k].entities = entities
               /\ inv[i].pc = "update" =>
                    IF k \in DOMAIN table
                       THEN SameApartFrom(table, table', k, apart)
                       ELSE Attributes(table', k) \ apart = KeyAttributes
               /\ inv[i].pc = "members" => table'[k] = table[k]
               /\ inv'[i].pc = "done" =>
                    \A t \in EntityTypes : \A j \in 1..Len(entities[t]) :
                        <<<<"entity#", t, Lower(entities[t][j])>>, DocSK(p)>>
                            \in DOMAIN table']_vars

\* the call returned for names with capitals, on a record that held a title
C6_Witness ==
    \E p \in Paths :
        /\ inv[1].stage = "se" /\ inv[1].path = p
        /\ inv[1].pc = "done" /\ inv[1].status = 200
        /\ inv[1].ents = Entities(<<"Ann">>, <<"Bob">>)
        /\ "title" \in Attributes(table, DocKey(p))
        /\ table[DocKey(p)].entities = inv[1].ents
        /\ <<<<"entity#", "people", "ann">>, DocSK(p)>> \in DOMAIN table

----------------------------------------------------------------------------
(* C7: entity keys are case-insensitive: in every reachable state, for a   *)
(* type t and names n1, n2 that differ only in letter case,                *)
(* get_entity_mentions(t, n1) and get_entity_mentions(t, n2) are the same  *)
(* list, and it holds every path store_entities recorded under t for a     *)
(* spelling of that name.                                                  *)

Range(list) == {list[j] : j \in 1..Len(list)}

----------------------------------------------------------------------------
(* C8: materializer rebuilds are idempotent: an entity page rendered again *)
(* for the same entity name, or the classification index rendered again,    *)
(* from the table state the stored document was rendered from, is the same  *)
(* document, whatever the time between the two.                             *)

C8_RebuildIdempotent ==
    [][\A i \in Invs :
        /\ (/\ inv[i].stage = "rebuild" /\ inv[i].pc = "write"
            /\ inv'[i].pc = "done" /\ inv'[i].status = 200
            /\ IndexKey \in DOMAIN source
            /\ source[IndexKey] = inv[i].snap)
           => agent'[IndexKey] = agent[IndexKey]
        /\ (/\ inv[i].stage = "entities" /\ inv[i].pc = "upload"
            /\ inv'[i].pc # "upload" /\ inv'[i].status # 500)
           => LET key == EntityPageKey(Head(inv[i].todo)[1], Head(inv[i].todo)[2])
              IN  (/\ key \in DOMAIN source
                   /\ source[key] = inv[i].snap
                   /\ agent[key].heading = Head(inv[i].todo)[2])
                  => agent'[key] = agent[key]]_vars

----------------------------------------------------------------------------
(* C9: every document stage is safe to repeat: when the metadata, the      *)
(* classification or the entity stage returns 200 for the event the        *)
(* previous invocation returned 200 for (same stage, same path, same       *)
(* content, same model response), the table is, modified apart, the one    *)
(* that previous invocation left.                                          *)

C9_RepeatSafe ==
    [][\A i \in Invs :
        (/\ inv[i].stage \in Stages
         /\ inv[i].pc # "done" /\ inv'[i].pc = "done" /\ inv'[i].status = 200
         /\ prev.run = runs - 1
         /\ prev.stage = inv[i].stage /\ prev.path = inv[i].path
         /\ prev.label = inv[i].label /\ prev.ents = inv[i].ents)
        => TableNoModified(table') = TableNoModified(prev.table)]_vars

----------------------------------------------------------------------------
(* C10: no stage rolls back on failure: the step in which an invocation    *)
(* turns to its failure outcome leaves every record of the table, written  *)
(* by this stage or by earlier ones, in place with its value.              *)

C10_NoRollback ==
    [][(\E i \in Invs : inv'[i].status = 500 /\ inv[i].status # 500)
        => \A k \in DOMAIN table : k \in DOMAIN table' /\ table'[k] = table[k]]_vars

\* the entity stage failed on its second membership write: the entities attribute
\* and the first membership record are in the table
C10_Witness ==
    \E p \in Paths :
        /\ runs = 1
        /\ inv[1].stage = "entities" /\ inv[1].path = p /\ inv[1].status = 500
        /\ "entities" \in Attributes(table, DocKey(p))
        /\ Len(EntityPairs(table[DocKey(p)].entities)) = 2
        /\ Cardinality(EntityKeysOf(table, p)) = 1

----------------------------------------------------------------------------
(* C11: a collaborator call that raises is propagated as a stage failure:  *)
(* an invocation in which a blob-store, index-store or text-generation     *)
(* call raised (the per-tag membership writes of the metadata stage        *)
(* included) ends with statusCode 500, never with a success outcome.        *)

C11_FailurePropagates ==
    \A i \in Invs : (inv[i].pc = "done" /\ inv[i].failed) => inv[i].status = 500

\* the event of an invocation is not applicable: bucket and key are there, and
\* the key has another extension, or lies under a reserved prefix, or names an
\* object that is absent or empty
NotApplicable(r) ==
    /\ r.bucket # "" /\ r.path # ""
    /\ \/ ~EndsWithMd(r.path)
       \/ StartsWithDir(r.path, "_agent") \/ StartsWithDir(r.path, ".obsidian")
       \/ get_object(vault, r.path).empty

\* C12: a document stage that received a not applicable event never gets past
\* the fetch of the object (no model call), returns 200 unless a collaborator
\* failed, and none of its steps changes the index, the agent blobs or the
\* triggers.
C12_NotApplicableNoOp ==
    [][\A i \in Invs :
        (inv'[i].stage \in Stages /\ NotApplicable(inv'[i])) =>
            /\ inv'[i].pc \in {"fetch", "done"}
            /\ (inv'[i].pc = "done" /\ ~inv'[i].failed) => inv'[i].status = 200
            /\ inv'[i] # inv[i] =>
                    (table' = table /\ agent' = agent /\ triggers' = triggers)]_vars

\* C12 witness: the entity stage returned 200 for a key whose object is absent,
\* with nothing written
C12_Witness ==
    /\ inv[1].pc = "done" /\ inv[1].status = 200
    /\ inv[1].stage = "entities" /\ inv[1].path = "gone.md"
    /\ NotApplicable(inv[1])
    /\ table = NoValue /\ triggers = {}

\* the event of an invocation lacks the bucket name or the object key
Malformed(r) == r.stage \in Stages /\ r.pc # "idle" /\ (r.bucket = "" \/ r.path = "")

\* C13: a document stage that received an event without bucket name or object
\* key is done at once with statusCode 400: it never stands before a blob read,
\* a model call or a write, and the step that delivers the event changes neither
\* the index, nor the agent blobs, nor the triggers.
C13_ValidationError ==
    [][\A i \in Invs :
        Malformed(inv'[i]) =>
            /\ inv'[i].pc = "done" /\ inv'[i].status = 400 /\ ~inv'[i].failed
            /\ runs' # runs =>
                    (table' = table /\ agent' = agent /\ triggers' = triggers)]_vars

\* C13 witness: the classification stage returned 400 for an event that names a
\* key but no bucket, and the metadata of no document was written
C13_Witness ==
    /\ inv[1].stage = "classify" /\ inv[1].pc = "done" /\ inv[1].status = 400
    /\ inv[1].bucket = "" /\ inv[1].path = "a.md"
    /\ Malformed(inv[1])
    /\ table = NoValue

\* a document text without a leading block, or whose block is no mapping
Unusable(content) ==
    ~content.empty /\ (~content.fmPresent \/ content.yaml \in {"error", "scalar", "list"})

\* C14: when the metadata or the classification stage has fetched a text whose
\* frontmatter is absent or unusable, extract_frontmatter yields no frontmatter
\* and the whole text as body, and the stage goes on with a Metadata whose
\* has_frontmatter is false instead of failing.
C14_UnusableFrontmatter ==
    [][\A i \in Invs :
        LET content == get_object(vault, inv[i].path)
        IN  (/\ inv[i].stage \in {"metadata", "classify"}
             /\ inv[i].pc = "fetch" /\ inv'[i].pc # "fetch" /\ ~inv'[i].failed
             /\ Unusable(content)) =>
                /\ extract_frontmatter(content).kind = "None"
                /\ extract_frontmatter(content).body = content
                /\ inv'[i].status # 500
                /\ inv'[i].meta.has_frontmatter = FALSE]_vars

\* C15: classify_document returns one of the five labels for every response,
\* "reference" when the trimmed and lowercased response is none of them; the
\* label the classification stage holds for its index write, the classification
\* of every index record and the classification of every rebuild trigger are
\* among the five.
C15_LabelInEnum ==
    /\ \A response \in ClassifyResponses :
            /\ classify_document(response) \in Labels
            /\ StripLower(response) \notin Labels => classify_document(response) = "reference"
    /\ \A i \in Invs :
            (inv[i].stage = "classify" /\ inv[i].pc \in {"put", "trigger"}) =>
                (inv[i].label \in Labels /\ inv[i].meta.classification = inv[i].label)
    /\ \A k \in DOMAIN table :
            "classification" \in DOMAIN table[k] => table[k].classification \in Labels
    /\ \A t \in triggers : t.classification \in Labels

\* C15 witness: the model answered outside the five labels, and the stage wrote
\* and triggered with the fallback
C15_Witness ==
    \E p \in Paths :
        /\ DocKey(p) \in DOMAIN table
        /\ "classification" \in DOMAIN table[DocKey(p)]
        /\ table[DocKey(p)].classification = "reference"
        /\ [classification |-> "reference", document_path |-> p] \in triggers
        /\ classify_document("memo") = "reference"

\* C16: whatever text the model returned, the entity stage goes on from the
\* model call with a mapping that has all four categories: extract_entities
\* returns for every response, backfilling what is missing, and an invocation
\* whose collaborators did not fail is not ended by the response.
C16_FourCategories ==
    [][\A i \in Invs :
        (/\ inv[i].stage = "entities"
         /\ inv[i].pc = "model" /\ inv'[i].pc # "model" /\ ~inv'[i].failed) =>
            /\ inv'[i].pc = "update"
            /\ EntityTypes \subseteq DOMAIN inv'[i].ents]_vars

\* the filter of the stages as one rule: the markdown suffix, and neither of the
\* two reserved prefixes
Processable(key) ==
    EndsWithMd(key) /\ ~StartsWithDir(key, "_agent") /\ ~StartsWithDir(key, ".obsidian")

\* C17: an event with bucket and key that is delivered to a document stage is
\* processed (the stage goes on to fetch the object) exactly when its key ends
\* with .md and lies under neither reserved prefix, whichever stage it is.
C17_SameFilter ==
    [][\A i \in Invs :
        (/\ runs' # runs /\ inv'[i].stage \in Stages
         /\ inv'[i].bucket # "" /\ inv'[i].path # ""
         /\ inv'[i].pc \in {"fetch", "done"}) =>
            (inv'[i].pc = "fetch" <=> Processable(inv'[i].path))]_vars

\* the window of a generator's invocation, as the generator computes it
WindowOf(r) ==
    IF r.stage = "daily" THEN [since |-> r.meta.date, until |-> r.meta.date + 1]
    ELSE [since |-> week_start(r.meta.date), until |-> week_end(r.meta.date)]

\* the indexed documents that survive the window and the reserved-prefix filter
Survivors(r) ==
    {doc_path \in ReportDocs :
        /\ DocKey(doc_path) \in DOMAIN table
        /\ WindowOf(r).since <= table[DocKey(doc_path)].modified
        /\ table[DocKey(doc_path)].modified < WindowOf(r).until
        /\ ~StartsWithDir(doc_path, "_agent")}

\* C18: a generator running on a window without surviving documents never
\* reaches the text-generation call or the upload: none of its steps writes a
\* blob, and it ends with 200 unless a collaborator failed.
C18_NoOpWhenEmpty ==
    [][\A i \in Invs :
        (/\ inv[i].stage \in {"daily", "weekly"}
         /\ inv[i].pc \notin {"idle", "done"}
         /\ Survivors(inv[i]) = {}) =>
            /\ inv'[i].pc \notin {"model", "upload"}
            /\ agent' = agent
            /\ (inv'[i].pc = "done" /\ ~inv'[i].failed) => inv'[i].status = 200]_vars

\* the Monday of the ISO week of a day
IsoMonday(day) == day - Weekday(day)

\* C19: the window of a weekly run on target date d starts on the Monday of
\* d's ISO week and ends seven days later, so it contains d and its first day
\* lies in the week whose ISO week string names the report.
C19_IsoWeekWindow ==
    \A i \in Invs :
        (inv[i].stage = "weekly" /\ inv[i].pc \notin {"idle", "done"}) =>
            LET d == inv[i].meta.date
            IN  /\ week_start(d) = IsoMonday(d)
                /\ week_end(d) = IsoMonday(d) + 7
                /\ week_start(d) <= d /\ d < week_end(d)
                /\ get_week_string(week_start(d)) = get_week_string(d)

\* the dates of the target week whose rollup the daily generator has persisted,
\* under the key the daily generator writes
PersistedInWeek(d) ==
    {DateStr(day) : day \in {day \in IsoMonday(d)..(IsoMonday(d) + 6) :
        AgentKey(<<"summaries">>, MdFile(DateStr(day))) \in DOMAIN agent}}

\* C20: when the weekly generator stands before its synthesis call, the daily
\* rollups it has gathered are exactly those persisted for the seven days of the
\* target date's ISO week.
C20_RollupsOfTheWeek ==
    \A i \in Invs :
        (inv[i].stage = "weekly" /\ inv[i].pc = "model") =>
            {inv[i].meta.daily_summaries[n] : n \in 1..Len(inv[i].meta.daily_summaries)}
                = PersistedInWeek(inv[i].meta.date)

\* the paths of the document records of the index
IndexedPaths == {StripDocPrefix(k[1]) : k \in {k \in DOMAIN table : k[2] = MetaSK}}

\* the indexed documents of the window of a generator's invocation that do not
\* lie under the reserved prefix
Eligible(r) ==
    {doc_path \in IndexedPaths :
        /\ WindowOf(r).since <= table[DocKey(doc_path)].modified
        /\ table[DocKey(doc_path)].modified < WindowOf(r).until
        /\ ~StartsWithDir(doc_path, "_agent")}

\* the size of the sample: 20 documents a day, 30 a week
SampleLimit(r) == IF r.stage = "daily" THEN 20 ELSE 30

\* C21: the documents a generator hands to its synthesis call are eligible
\* documents of the window, at most 20 (daily) or 30 (weekly) of them, and
\* exactly that many whenever the window has at least that many eligible ones.
C21_SampleOfWindow ==
    \A i \in Invs :
        (inv[i].stage \in {"daily", "weekly"} /\ inv[i].pc = "model") =>
            LET documents == inv[i].meta.documents
            IN  /\ \A n \in 1..Len(documents) : documents[n] \in Eligible(inv[i])
                /\ Len(documents) <= SampleLimit(inv[i])
                /\ Cardinality(Eligible(inv[i])) >= SampleLimit(inv[i])
                        => Len(documents) = SampleLimit(inv[i])

\* the place of a path in the lexicographic order of the object keys
Rank(p) == CHOOSE n \in 1..Len(PathSeq) : PathSeq[n] = p

\* C22: the index rendered from a mapping has one section for each label that
\* the mapping gives at least one path, in the order meeting, idea, reference,
\* journal, project; a section lists the paths of its label, each once, in
\* lexicographic order.
C22_IndexLayout ==
    IndexKey \in DOMAIN agent =>
        LET sections == agent[IndexKey].sections
            given == source[IndexKey]
        IN  /\ [n \in 1..Len(sections) |-> sections[n][1]]
                = SelectSeq(valid_types, LAMBDA c : c \in DOMAIN given /\ given[c] # <<>>)
            /\ \A n \in 1..Len(sections) :
                LET docs == sections[n][2]
                IN  /\ {docs[j] : j \in 1..Len(docs)}
                        = {given[sections[n][1]][j] : j \in 1..Len(given[sections[n][1]])}
                    /\ \A j \in 1..(Len(docs) - 1) : Rank(docs[j]) < Rank(docs[j + 1])

\* C22 witness: an index rendered from a mapping without meeting, with idea
\* mapped to the empty list and project to b.md before a.md has the one section
\* project, a.md first
C22_Witness ==
    /\ IndexKey \in DOMAIN agent
    /\ "meeting" \notin DOMAIN source[IndexKey]
    /\ "idea" \in DOMAIN source[IndexKey] /\ source[IndexKey].idea = <<>>
    /\ "project" \in DOMAIN source[IndexKey]
    /\ source[IndexKey].project = <<"b.md", "a.md">>
    /\ agent[IndexKey].sections = << <<"project", <<"a.md", "b.md">>>> >>

\* C23: the page the entity stage uploads for an entity lists, one bullet each,
\* the paths get_entity_mentions returns from the index as it is at the
\* rebuild, the document being processed among them; what the page held
\* before has no part in it.
C23_PageIsRebuilt ==
    [][\A i \in Invs :
        (/\ inv[i].stage = "entities" /\ inv[i].pc = "upload"
         /\ inv'[i].pc # "upload" /\ inv'[i].status # 500) =>
            LET entity_type == Head(inv[i].todo)[1]
                entity_name == Head(inv[i].todo)[2]
                key == EntityPageKey(entity_type, entity_name)
                paths == get_entity_mentions(table, entity_type, entity_name)
            IN  /\ key \in DOMAIN agent'
                /\ agent'[key].bullets = paths
                /\ agent'[key].heading = entity_name
                /\ \A m, n \in 1..Len(paths) : paths[m] = paths[n] => m = n
                /\ \E n \in 1..Len(paths) : paths[n] = inv[i].path]_vars

\* C23 witness: the entity stage has run for b.md after a.md mentioned the same
\* entity, and the page it uploaded lists both
C23_Witness ==
    \E key \in DOMAIN agent :
        /\ "bullets" \in DOMAIN agent[key]
        /\ agent[key].bullets = <<"a.md", "b.md">>
        /\ inv[1].stage = "entities" /\ inv[1].path = "b.md" /\ inv[1].status = 200
        /\ runs >= 2

\* C24: no write to the document record of a path lowers its modified
\* attribute, however the invocations of the three stages interleave.
C24_ModifiedMonotonic ==
    [][\A p \in Paths :
        (/\ DocKey(p) \in DOMAIN table /\ DocKey(p) \in DOMAIN table'
         /\ "modified" \in DOMAIN table[DocKey(p)]
         /\ "modified" \in DOMAIN table'[DocKey(p)]) =>
            table'[DocKey(p)].modified >= table[DocKey(p)].modified]_vars

C26_ClassificationInEnum ==
    \A k \in DOMAIN table :
        (k[2] = MetaSK /\ "classification" \in DOMAIN table[k]) =>
            table[k].classification \in Labels

\* C27: whatever the threshold, the scan of get_documents_modified_since
\* returns document records only, each with modified at or after the
\* threshold, and every such document record; no tag or entity membership
\* record is in the result.
C27_ScanReturnsDocuments ==
    \A since \in ReportDays :
        LET docs == get_documents_modified_since(table, since)
        IN  /\ \A n \in 1..Len(docs) :
                /\ docs[n] \in DOMAIN table
                /\ docs[n][2] = MetaSK
                /\ "tag_name" \notin DOMAIN table[docs[n]]
                /\ "entity_key" \notin DOMAIN table[docs[n]]
                /\ table[docs[n]].modified >= since
            /\ \A p \in ReportDocs :
                (DocKey(p) \in DOMAIN table /\ table[DocKey(p)].modified >= since)
                    => \E n \in 1..Len(docs) : docs[n] = DocKey(p)

\* C27 witness: the daily generator has scanned an index in which a.md and its
\* two membership records were modified on the target day, and got a.md alone
C27_Witness ==
    /\ inv[1].stage = "daily" /\ inv[1].pc = "collect" /\ inv[1].todo = <<"a.md">>
    /\ <<TagPK("x"), DocSK("a.md")>> \in DOMAIN table
    /\ table[<<TagPK("x"), DocSK("a.md")>>].modified = inv[1].meta.date
    /\ <<EntityPK("people", "Ann"), DocSK("a.md")>> \in DOMAIN table
    /\ table[<<EntityPK("people", "Ann"), DocSK("a.md")>>].modified = inv[1].meta.date
    /\ get_documents_modified_since(table, inv[1].meta.date) = <<DocKey("a.md")>>

\* the list has no element twice
NoDuplicates(list) == \A m \in 1..Len(list), n \in 1..Len(list) : m # n => list[m] # list[n]

\* the pieces of the body, line by line
PiecesOf(lines) == UNION {Range(lines[m]) : m \in 1..Len(lines)}

\* the trimmed tags of the frontmatter: the values of a list, the parts of a
\* comma-separated string
FrontmatterTags(frontmatter) ==
    IF "tags" \notin DOMAIN frontmatter THEN {}
    ELSE IF frontmatter["tags"].type = "list"
        THEN {strip(str(v)) : v \in Range(frontmatter["tags"].val)}
    ELSE IF frontmatter["tags"].type = "str"
        THEN {strip(t) : t \in Range(split(frontmatter["tags"].val, ","))}
    ELSE {}

\* C28: the tags extracted from a note are the trimmed frontmatter tags (of a
\* list or of a comma-separated string) together with the hashtags typed in
\* the body, and no tag is in the list twice.
C28_TagsUnion ==
    inv[1].pc = "done" =>
        LET tags == inv[1].meta.tags
            note == vault["a.md"]
        IN  /\ NoDuplicates(tags)
            /\ Range(tags) = FrontmatterTags(note.frontmatter)
                                \cup {p.name : p \in {q \in PiecesOf(note.lines) : q.kind = "tag"}}

\* C28 witness: tags "a, b,a" in the frontmatter, "#a #a" and "#b" in the body:
\* the result holds a and b, once each
C28_Witness ==
    /\ inv[1].pc = "done"
    /\ vault["a.md"].frontmatter = [tags |-> StrValue(<<"a", ",", " ", "b", ",", "a">>)]
    /\ BodyText(vault["a.md"].lines) = <<"#", "a", " ", "#", "a", "\n", "#", "b">>
    /\ Len(inv[1].meta.tags) = 2
    /\ Range(inv[1].meta.tags) = {<<"a">>, <<"b">>}

\* C29: the wikilinks extracted from a body are the trimmed targets of the
\* links typed in it, with or without display text; no display text and no
\* target twice.
C29_TargetsOnly ==
    inv[1].pc = "done" =>
        LET links == inv[1].meta.links_to
            note == vault["a.md"]
        IN  /\ NoDuplicates(links)
            /\ Range(links) = {p.name : p \in {q \in PiecesOf(note.lines) : q.kind = "link"}}

\* C29 witness: "[[a]] [[ a ]]" and "[[b|a]]" give the targets a and b
C29_Witness ==
    /\ inv[1].pc = "done"
    /\ BodyText(vault["a.md"].lines) =
           <<"[", "[", "a", "]", "]", " ", "[", "[", " ", "a", " ", "]", "]", "\n",
             "[", "[", "b", "|", "a", "]", "]">>
    /\ Len(inv[1].meta.links_to) = 2
    /\ Range(inv[1].meta.links_to) = {<<"a">>, <<"b">>}

\* the lines "# text" of the body
HeadingLines(lines) ==
    {n \in 1..Len(lines) : Len(lines[n]) = 2 /\ lines[n][1].kind = "mark"}

\* C30: the title is the (trimmed) title of the frontmatter when it has one,
\* otherwise the text of the first line "# text" of the body, otherwise
\* "Untitled".
C30_TitleSource ==
    inv[1].pc = "done" =>
        LET title == inv[1].meta.title
            note == vault["a.md"]
            first == CHOOSE n \in HeadingLines(note.lines) :
                         \A m \in HeadingLines(note.lines) : n <= m
        IN  IF "title" \in DOMAIN note.frontmatter
                THEN title = strip(note.frontmatter["title"].val)
            ELSE IF HeadingLines(note.lines) # {}
                THEN title = note.lines[first][2].text
            ELSE title = Untitled

\* C31: the file name sanitize_filename makes of a name holds only lowercase
\* word characters, hyphens and dots, and neither starts nor ends with a
\* hyphen; "Test File Name" gives "test-file-name" and "UPPERCASE" gives
\* "uppercase".
C31_SafeName ==
    \A k \in DOMAIN agent :
        LET filename == k[3]
            allowed == (WordChars \ (Range(UpperCase) \cup {"U+0130"})) \cup {"-", "."}
        IN  /\ \A n \in 1..Len(filename) : filename[n] \in allowed
            /\ filename # <<>> => (filename[1] # "-" /\ filename[Len(filename)] # "-")
            /\ agent[k] = TestFileName =>
                   filename = <<"t", "e", "s", "t", "-", "f", "i", "l", "e", "-",
                                "n", "a", "m", "e">>
            /\ agent[k] = UPPERCASE => filename = lower(UPPERCASE)

\* C32: a document record comes into existence only by the write of a
\* metadata-extraction run for its path: a step of the classification stage or
\* of the entity stage never creates the record of a path that had none.
C32_CreatedByMetadata ==
    [][\A p \in Paths :
          (DocKey(p) \notin DOMAIN table /\ DocKey(p) \in DOMAIN table') =>
              \E i \in Invs : /\ inv[i].stage = "metadata"
                              /\ inv[i].path = p
                              /\ inv[i].pc = "put"]_vars

\* C33: whenever a trigger of the index rebuild is emitted, it is emitted by a
\* classification run that has applied its write: the trigger carries the path
\* of the run and its label, and the record of that path holds this label.
\* (A run that was skipped or that failed never reaches the emitting step.)
C33_TriggerAfterWrite ==
    [][\A payload \in triggers' \ triggers :
          \E i \in Invs :
              /\ inv[i].stage = "classify" /\ inv[i].pc = "trigger"
              /\ payload = [classification |-> inv[i].label, document_path |-> inv[i].path]
              /\ DocKey(inv[i].path) \in DOMAIN table
              /\ "classification" \in DOMAIN table[DocKey(inv[i].path)]
              /\ table[DocKey(inv[i].path)].classification = payload.classification]_vars

\* C34: the put_item of a metadata or classification run for path p changes
\* the record of p only: no record of another key (document or membership) is
\* created or overwritten by it, whatever fields the frontmatter carries.
C34_WritesOwnRecord ==
    [][\A i \in Invs :
          (/\ inv[i].stage \in {"metadata", "classify"}
           /\ inv[i].pc = "put" /\ inv'[i].pc # "put") =>
              \A k \in DOMAIN table' :
                  k # DocKey(inv[i].path) => (k \in DOMAIN table /\ table'[k] = table[k])]_vars

\* every classification run and every rebuild it triggered has completed
Settled ==
    /\ triggers = {}
    /\ \A i \in Invs : inv[i].pc \in {"idle", "done"}
    /\ IndexKey \in DOMAIN agent

\* C35: once every classification run and every index rebuild it triggered has
\* completed, the persisted classification index lists each classified
\* document under its current label, whatever the interleaving of the runs
\* and of the reads and writes of the rebuilds.
C35_IndexCurrent ==
    Settled =>
        \A p \in Paths :
            (DocKey(p) \in DOMAIN table /\ "classification" \in DOMAIN table[DocKey(p)]) =>
                \E n \in 1..Len(agent[IndexKey].sections) :
                    /\ agent[IndexKey].sections[n][1] = table[DocKey(p)].classification
                    /\ p \in Range(agent[IndexKey].sections[n][2])

\* C36: when two entity-stage invocations for two different documents have both
\* completed with success, the page of every entity that both documents
\* mention (both membership records are stored) lists both paths, however
\* their membership writes, mention queries and page uploads interleave.
C36_PageListsBoth ==
    (/\ \A i \in Invs : inv[i].stage = "entities" /\ inv[i].pc = "done" /\ inv[i].status = 200
     /\ inv[1].path # inv[2].path) =>
        \A entity_type \in EntityTypes, entity_name \in Names :
            (\A p \in Paths : <<EntityPK(entity_type, entity_name), DocSK(p)>> \in DOMAIN table) =>
                /\ EntityPageKey(entity_type, entity_name) \in DOMAIN agent
                /\ Paths \subseteq Range(agent[EntityPageKey(entity_type, entity_name)].bullets)

\* C37: every blob the engine writes has a key under _agent/, an event for
\* such a key is skipped by each of the three document stages (the run is over
\* with status 200 at once), and no document, tag or entity record is stored
\* for the key of a blob.
C37_NoSelfIngestion ==
    /\ \A k \in DOMAIN agent : k[1] = "_agent"
    /\ \A i \in Invs : inv[i].blob \in DOMAIN agent => (inv[i].pc = "done" /\ inv[i].status = 200)
    /\ \A k \in DOMAIN table : k = DocKey("a.md") \/ k[2] = DocSK("a.md")

\* C37 witness: the page of Ann was uploaded and its event was delivered to the
\* entity stage, which skipped it
C37_Witness ==
    /\ EntityPageKey("people", "Ann") \in DOMAIN agent
    /\ inv[1].blob = EntityPageKey("people", "Ann")
    /\ inv[1].stage = "entities" /\ inv[1].pc = "done" /\ inv[1].status = 200

\* C38: when a metadata run for p returns 200 after storing the record of p, a
\* tag record (t, p) exists for every tag t of the tags the run stored.
C38_TagRecordsStored ==
    [][\A i \in Invs :
          (/\ inv[i].stage = "metadata" /\ inv[i].pc \in {"put", "tags"}
           /\ inv'[i].pc = "done" /\ inv'[i].status = 200) =>
              \A tag \in inv[i].meta.tags :
                  <<TagPK(tag), DocSK(inv[i].path)>> \in DOMAIN table']_vars

\* the paths the index page lists under a label
ListedUnder(sections, label) ==
    UNION {Range(sections[n][2]) : n \in {m \in 1..Len(sections) : sections[m][1] = label}}

\* the paths whose document record has the label
ClassifiedAs(T, label) ==
    {k[1][2] : k \in {k \in DOMAIN T : /\ k[1][1] = "doc#" /\ k[2] = MetaSK
                                        /\ "classification" \in DOMAIN T[k]
                                        /\ T[k].classification = label}}

\* C39: the index page a rebuild wrote lists, under each label, exactly the
\* paths whose record had the label in the table the rebuild read, however
\* many they are, and no path under two labels.
C39_IndexMatchesRecords ==
    IndexKey \in DOMAIN agent =>
        LET sections == agent[IndexKey].sections
            T == source[IndexKey]
        IN  /\ \A label \in Labels : ListedUnder(sections, label) = ClassifiedAs(T, label)
            /\ \A l1, l2 \in Labels :
                   l1 # l2 => ListedUnder(sections, l1) \cap ListedUnder(sections, l2) = {}

\* C40: once the record of p holds created, a step of a metadata,
\* classification or entity run for p leaves created in the record, with the
\* same value.
C40_CreatedKept ==
    [][\A p \in Paths :
          (/\ DocKey(p) \in DOMAIN table
           /\ "created" \in DOMAIN table[DocKey(p)]
           /\ \E i \in Invs : /\ inv[i].stage \in Stages /\ inv[i].path = p
                               /\ inv'[i] # inv[i]) =>
              /\ DocKey(p) \in DOMAIN table'
              /\ "created" \in DOMAIN table'[DocKey(p)]
              /\ table'[DocKey(p)].created = table[DocKey(p)].created]_vars

====
